---- MODULE Spec2Model ----
(***************************************************************************)
(* Skill quality analyzer (tools/analyzer): the Section matcher, the       *)
(* smooth scoring curve, the four dimension scorers and the aggregator     *)
(* SkillAnalyzer.analyze.                                                  *)
(*                                                                         *)
(* Text is a sequence of one-character strings.  Each component has its    *)
(* own specification over the shared variables; the variables of the       *)
(* other components stay at their idle values.                             *)
(***************************************************************************)
EXTENDS Integers, Sequences, FiniteSets, TLC

VARIABLES
    title,      \* Section.title of the section under test
    name,       \* the argument of Section.matches
    matched,    \* the value returned by Section.matches (FALSE before the call)
    value,      \* first argument of the first smooth_score call
    value2,     \* first argument of the second smooth_score call
    max_value,  \* ceiling value of both calls
    max_score,  \* ceiling score of both calls
    score,      \* result of the first call
    score2,     \* result of the second call
    skill_md,           \* the file SKILL.md of the skill directory
    metadata_json,      \* the file metadata.json of the skill directory
    config,             \* SkillAnalyzer.config
    doc,                \* the SkillDocument built by analyze, {} before
    content_score,      \* results of the four scorers, {} before each call
    technical_score,
    maintenance_score,
    ux_score,
    exception,          \* the exception in flight inside the try block
    result,             \* the record returned by analyze, {} before
    raised,             \* the exception that left analyze, "none" if none
    merge_default,      \* the arguments of one call of _merge_configs
    merge_loaded,
    merged,             \* its result, {} before the call
    rubric_file,        \* the rubric file at ScoringConfig.config_path
    edited_file,        \* the content an editor is about to give that file
    instances,          \* the ScoringConfig objects built so far, by identity
    global_config,      \* _global_config: an index of instances, 0 for None
    held,               \* the instance the reader got from get_config, 0 before
    held_config,        \* the config of that instance when the reader got it
    lookup_path,        \* the path of the reader's get_smooth_params call
    lookup,             \* the outcome of that call, {} before
    during,             \* the configs of the held instance during that call
    rubric_raised,      \* the exception that left ScoringConfig(), or "none"
    reloader,           \* position of the thread that edits and reloads
    raw_content,        \* SkillDocument.raw_content, the lines of SKILL.md
    yaml_frontmatter,   \* SkillDocument.yaml_frontmatter, {} for None
    markdown_body,      \* SkillDocument.markdown_body
    doc_raised,         \* the exception that left SkillDocument(), or "none"
    parsed_sections,    \* the list returned by _parse_sections, {} before
    parsed_code_blocks, \* the list returned by _parse_code_blocks, {} before
    _sections,          \* SkillDocument._sections: an object of heap, 0 for None
    _code_blocks,       \* SkillDocument._code_blocks, likewise
    heap,               \* the list objects built so far, by identity
    readers,            \* the threads that read the document
    reader_pc,          \* position of each reader inside an accessor
    attribute,          \* the property each reader is reading
    computed_object,    \* the list each reader got from the parser
    accesses,           \* the accesses each reader has finished
    returned,           \* the accesses finished and the object each returned
    computed,           \* the parser calls made and the object each built
    entry_body,         \* the body given to the scorers' entry points
    entry_config,       \* the config the three scorers were built with
    via_document,       \* per scorer, the result of score(doc), {} before
    via_text,           \* per scorer, the result of score(doc.markdown_body)
    example_quality,    \* the result of _score_example_quality(doc), {} before
    metadata_pair,      \* two arguments of _score_update_frequency
    frequency_pair,     \* the outcome of the call on each, {} before
    remote,             \* per address, what the server answers for its files
    cache_files,        \* the files under GitHubSkillFetcher.cache_dir
    network_requests,   \* the calls of requests.get so far
    downloads,          \* the calls of download_skill so far, with outcomes
    pc          \* position of the component under test

matchVars == <<title, name, matched>>
smoothVars == <<value, value2, max_value, max_score, score, score2>>
fileVars == <<skill_md, metadata_json, config>>
scoreVars == <<content_score, technical_score, maintenance_score, ux_score>>
analysisVars == <<fileVars, doc, scoreVars, exception, result, raised>>
mergeVars == <<merge_default, merge_loaded, merged>>
rubricVars ==
    <<rubric_file, edited_file, instances, global_config, held, held_config,
      lookup_path, lookup, during, rubric_raised, reloader>>
docVars == <<raw_content, yaml_frontmatter, markdown_body, doc_raised>>
parseVars == <<parsed_sections, parsed_code_blocks>>
lazyVars ==
    <<_sections, _code_blocks, heap, readers, reader_pc, attribute,
      computed_object, accesses, returned, computed>>
documentVars == <<docVars, parseVars, lazyVars>>
libraryVars == <<mergeVars, rubricVars, documentVars>>
entryVars == <<entry_body, entry_config, via_document, via_text, example_quality>>
frequencyVars == <<metadata_pair, frequency_pair>>
fetchVars == <<remote, cache_files, network_requests, downloads>>
componentVars == <<entryVars, frequencyVars, fetchVars>>
vars == <<matchVars, smoothVars, analysisVars, libraryVars, componentVars, pc>>

(***************************************************************************)
(* Bounds                                                                  *)
(***************************************************************************)
MaxTitleLen == 5
MaxNameLen == 3
\* smooth_score arguments range over -NegSpan..MaxValue and
\* -NegSpan..MaxCeilingValue, ceiling scores over 0..MaxCeilingScore
NegSpan == 1
MaxValue == 11
MaxCeilingValue == 10
MaxCeilingScore == 7
\* rubrics: ceilings lowered by up to MaxSubCut / MaxTotalCut points, grade
\* thresholds by up to 10 * MaxEase points
MaxSubCut == 1
MaxTotalCut == 1
MaxEase == 1

\* values of the leaves of the dicts handed to _merge_configs
MaxLeaf == 2

\* lines of a SKILL.md text
MaxLines == 4

\* accesses of a document's properties by one reader
MaxAccesses == 3

\* calls of download_skill on one fetcher
MaxDownloads == 3

(***************************************************************************)
(* Text                                                                    *)
(***************************************************************************)
\* Characters of titles and queries: two letters, an upper-case letter and
\* the blank (the only character here that is not a regex word character).
Alphabet == {"a", "A", "s", " "}

StringsUpTo(n) == UNION {[1..k -> Alphabet] : k \in 0..n}

\* a string literal as its sequence of characters
Chars(str) == [i \in 1..Len(str) |-> SubSeq(str, i, i)]

UpperLetters == Chars("ABCDEFGHIJKLMNOPQRSTUVWXYZ")
LowerLetters == Chars("abcdefghijklmnopqrstuvwxyz")
Digits == Chars("0123456789")

\* str.lower() on one character and on a string
LowerChar(c) ==
    IF \E i \in 1..26 : UpperLetters[i] = c
    THEN LowerLetters[CHOOSE i \in 1..26 : UpperLetters[i] = c]
    ELSE c

Lower(str) == [i \in 1..Len(str) |-> LowerChar(str[i])]

\* \w of the re module
IsWordChar(c) ==
    \/ \E i \in 1..26 : c = UpperLetters[i] \/ c = LowerLetters[i]
    \/ \E i \in 1..10 : c = Digits[i]
    \/ c = "_"

\* str.strip() leaves nothing: every character is whitespace
IsBlank(str) == \A i \in 1..Len(str) : str[i] = " "

\* \b at offset p (0..Len): between str[p] and str[p+1], the outside of the
\* string counting as a non-word character
WordBoundary(str, p) ==
    LET before == IF p >= 1 THEN IsWordChar(str[p]) ELSE FALSE
        after  == IF p < Len(str) THEN IsWordChar(str[p + 1]) ELSE FALSE
    IN  before # after

\* the literal (re.escape'd) text lit occurs in str starting after offset p
LiteralAt(str, lit, p) ==
    /\ p + Len(lit) <= Len(str)
    /\ \A k \in 1..Len(lit) : str[p + k] = lit[k]

\* the pattern  \b<lit>\b : the plural suffix left out
PatternAtNoPlural(str, lit, p) ==
    /\ WordBoundary(str, p)
    /\ LiteralAt(str, lit, p)
    /\ WordBoundary(str, p + Len(lit))

\* the pattern  \b<lit>s?\b  matches str starting at offset p
PatternAt(str, lit, p) ==
    /\ WordBoundary(str, p)
    /\ LiteralAt(str, lit, p)
    /\ LET q == p + Len(lit)
       IN  \/ /\ q < Len(str)
              /\ str[q + 1] = "s"
              /\ WordBoundary(str, q + 1)
           \/ WordBoundary(str, q)

\* re.search(pattern, str)
Search(str, lit) == \E p \in 0..Len(str) : PatternAt(str, lit, p)

\* Section.matches with the two .lower() calls left out
MatchesCaseSensitive(ttl, nm) ==
    IF Len(nm) = 0 \/ IsBlank(nm)
    THEN FALSE
    ELSE Search(ttl, nm)

\* Section.matches(name) of a section titled ttl
Matches(ttl, nm) ==
    IF Len(nm) = 0 \/ IsBlank(nm)
    THEN FALSE
    ELSE Search(Lower(ttl), Lower(nm))

(***************************************************************************)
(* The smooth scoring curve (scoring_utils.py)                             *)
(***************************************************************************)
\* math.log(n) in millionths, n = 1..20; the entry of a product is the sum
\* of the entries of its factors, so that equal ratios of logarithms are
\* equal ratios of entries
LogMicro ==
    <<0, 693147, 1098612, 1386294, 1609438, 1791759, 1945910, 2079441,
      2197224, 2302585, 2397895, 2484906, 2564949, 2639057, 2708050,
      2772588, 2833213, 2890371, 2944439, 2995732>>

\* int(round(num / den)) for num >= 0, den > 0: round half to even
RoundRatio(num, den) ==
    LET q == num \div den
        r == num % den
    IN  IF 2 * r < den THEN q
        ELSE IF 2 * r > den THEN q + 1
        ELSE IF q % 2 = 0 THEN q ELSE q + 1

\* the logarithmic branch: round(max_score * log(1+v) / log(1+max_v))
LogBranch(v, max_v, max_s) ==
    RoundRatio(max_s * LogMicro[1 + v], LogMicro[1 + max_v])

\* smooth_score without the saturated branch  value >= max_value
SmoothScoreNoSaturation(v, max_v, max_s) ==
    IF v <= 0 THEN 0
    ELSE IF max_v <= 0 THEN max_s
    ELSE LogBranch(v, max_v, max_s)

\* smooth_score with the guard  max_value <= 0  tested first
SmoothScoreCeilingFirst(v, max_v, max_s) ==
    IF max_v <= 0 THEN max_s
    ELSE IF v <= 0 THEN 0
    ELSE IF v >= max_v THEN max_s
    ELSE LogBranch(v, max_v, max_s)

\* smooth_score(value, max_value, max_score)
SmoothScore(v, max_v, max_s) ==
    IF v <= 0 THEN 0
    ELSE IF max_v <= 0 THEN max_s
    ELSE IF v >= max_v THEN max_s
    ELSE LogBranch(v, max_v, max_s)

(***************************************************************************)
(* The rubric handed to SkillAnalyzer (config) and the smooth parameters   *)
(***************************************************************************)
\* the weights documented in the scorers, the grade thresholds, the analysis
\* thresholds and the star tiers
DefaultConfig ==
    [weights |->
        [content_quality |->
            [total |-> 50, clarity |-> 13, technical_depth |-> 19,
             documentation |-> 13, actionability |-> 5],
         technical_implementation |->
            [total |-> 30, code_quality |-> 15, pattern_design |-> 10,
             error_handling |-> 5],
         maintenance |->
            [total |-> 10, update_frequency |-> 3, community_activity |-> 5,
             compatibility |-> 2],
         user_experience |->
            [total |-> 10, ease_of_use |-> 5, readability |-> 5]],
     grade_thresholds |-> [S |-> 90, A |-> 80, B |-> 70, C |-> 60],
     analysis |->
        [recent_update_days |-> 90, active_update_days |-> 180,
         min_sections_for_full_score |-> 4,
         ideal_avg_line_length_min |-> 40, ideal_avg_line_length_max |-> 100],
     stars_thresholds |-> [excellent |-> 10000, good |-> 1000, fair |-> 100]]

\* a rubric whose sub-dimension ceilings are lowered by sub, whose dimension
\* ceilings are lowered by tot and whose grade thresholds are lowered by
\* 10 * ease
Rubric(sub, tot, ease) ==
    LET w == DefaultConfig.weights
        cq == w.content_quality
        ti == w.technical_implementation
        mt == w.maintenance
        ux == w.user_experience
        gt == DefaultConfig.grade_thresholds
    IN  [DefaultConfig EXCEPT
            !.weights =
                [content_quality |->
                    [total |-> cq.total - tot, clarity |-> cq.clarity - sub,
                     technical_depth |-> cq.technical_depth - sub,
                     documentation |-> cq.documentation - sub,
                     actionability |-> cq.actionability - sub],
                 technical_implementation |->
                    [total |-> ti.total - tot,
                     code_quality |-> ti.code_quality - sub,
                     pattern_design |-> ti.pattern_design - sub,
                     error_handling |-> ti.error_handling - sub],
                 maintenance |->
                    [total |-> mt.total - tot,
                     update_frequency |-> mt.update_frequency - sub,
                     community_activity |-> mt.community_activity - sub,
                     compatibility |-> mt.compatibility - sub],
                 user_experience |->
                    [total |-> ux.total - tot,
                     ease_of_use |-> ux.ease_of_use - sub,
                     readability |-> ux.readability - sub]],
            !.grade_thresholds =
                [S |-> gt.S - 10 * ease, A |-> gt.A - 10 * ease,
                 B |-> gt.B - 10 * ease, C |-> gt.C - 10 * ease]]

Configs ==
    {Rubric(sub, tot, ease) :
        sub \in 0..MaxSubCut, tot \in 0..MaxTotalCut, ease \in 0..MaxEase}

\* Python values of a rubric: a dict is a Map over its keys, anything else
\* is a Leaf (True and False are the integers 1 and 0)
Leaf(v) == [kind |-> "leaf", value |-> v]

Map(f) == [kind |-> "map", entries |-> f]

EmptyDict == Map([k \in {} |-> Leaf(0)])

\* isinstance(x, dict)
IsDict(x) == x.kind = "map"

\* key in x, for a dict x
HasKey(x, key) == key \in DOMAIN x.entries

\* a {max_value, max_score} dict
Pair(v, sc) == Map([max_value |-> Leaf(v), max_score |-> Leaf(sc)])

\* ScoringConfig.DEFAULT_CONFIG
DEFAULT_CONFIG ==
    Map([content_quality |->
            Map([clarity |-> Map([use_cases |-> Pair(5, 5)]),
                 technical_depth |->
                    Map([code_blocks |-> Pair(8, 7),
                         best_practices |-> Pair(5, 4)]),
                 documentation |->
                    Map([sections |-> Pair(10, 6),
                         examples |-> Pair(5, 4)])]),
         technical_implementation |->
            Map([code_quality |-> Map([code_block_count |-> Pair(5, 5)])]),
         general |->
            Map([default_max_value |-> Leaf(5), default_max_score |-> Leaf(5),
                 backward_compatible |-> Leaf(1), debug_mode |-> Leaf(0)])])

\* a merge that does not descend: every loaded value replaces the default one
MergeShallow(default, loaded) ==
    Map([key \in DOMAIN default.entries \cup DOMAIN loaded.entries |->
            IF HasKey(loaded, key) THEN loaded.entries[key]
            ELSE default.entries[key]])

\* ScoringConfig._merge_configs(default, loaded), both dicts
RECURSIVE _merge_configs(_, _)
_merge_configs(default, loaded) ==
    Map([key \in DOMAIN default.entries \cup DOMAIN loaded.entries |->
            IF ~HasKey(loaded, key) THEN default.entries[key]
            ELSE IF /\ HasKey(default, key)
                    /\ IsDict(default.entries[key])
                    /\ IsDict(loaded.entries[key])
                 THEN _merge_configs(default.entries[key], loaded.entries[key])
                 ELSE loaded.entries[key]])

\* the outcome of a call: a returned value or a raised exception
Returns(v) == [outcome |-> "returns", value |-> v]

Raises(e) == [outcome |-> "raises", error |-> e]

\* x.get(key, default) of a value x: AttributeError when x is not a dict
DictGet(x, key, default) ==
    IF ~IsDict(x) THEN Raises("AttributeError")
    ELSE IF HasKey(x, key) THEN Returns(x.entries[key])
    ELSE Returns(default)

\* ScoringConfig._get_default_params on self.config = cfg
_get_default_params(cfg) ==
    LET general == DictGet(cfg, "general", EmptyDict).value
        dv == DictGet(general, "default_max_value", Leaf(5))
        ds == DictGet(general, "default_max_score", Leaf(5))
    IN  IF dv.outcome = "raises" THEN dv
        ELSE Returns([max_value |-> dv.value, max_score |-> ds.value])

\* bool(x) is False: None, 0, "" and the empty dict
Falsy(x) == IF IsDict(x) THEN DOMAIN x.entries = {} ELSE x.value = 0

\* ScoringConfig._load_config on a rubric file: the default for an absent,
\* an empty and an unparseable file, and for a top level that is not a dict
\* (loaded.items() raises AttributeError inside the try block)
_load_config(file) ==
    IF file.state \in {"absent", "unparseable"} THEN DEFAULT_CONFIG
    ELSE IF Falsy(file.value) THEN DEFAULT_CONFIG
    ELSE IF ~IsDict(file.value) THEN DEFAULT_CONFIG
    ELSE _merge_configs(DEFAULT_CONFIG, file.value)

\* ScoringConfig.__init__ on a rubric file: the instance, or the exception
\* of self.config.get('general', {}).get('debug_mode', False)
ScoringConfig(file) ==
    LET cfg == _load_config(file)
        general == DictGet(cfg, "general", EmptyDict).value
        debug_mode == DictGet(general, "debug_mode", Leaf(0))
    IN  IF debug_mode.outcome = "raises" THEN debug_mode
        ELSE Returns([config |-> cfg, debug_mode |-> debug_mode.value,
                      loaded_from |-> file.state])

\* the walk of get_smooth_params from current along path: the value reached,
\* or "miss" when a segment is absent or the value walked through is no dict
RECURSIVE Walk(_, _)
Walk(current, path) ==
    IF path = <<>> THEN Returns(current)
    ELSE IF ~IsDict(current) \/ ~HasKey(current, Head(path))
         THEN [outcome |-> "miss"]
         ELSE Walk(current.entries[Head(path)], Tail(path))

\* the part of get_smooth_params that reads self.config once: the configured
\* pair, or "miss" when _get_default_params is to be called
ConfiguredParams(cfg, path) ==
    LET w == Walk(cfg, path)
    IN  IF w.outcome = "miss" THEN w
        ELSE IF ~IsDict(w.value) THEN [outcome |-> "miss"]
        ELSE IF ~HasKey(w.value, "max_value") \/ ~HasKey(w.value, "max_score")
             THEN [outcome |-> "miss"]
        ELSE Returns([max_value |-> w.value.entries["max_value"],
                      max_score |-> w.value.entries["max_score"]])

\* ScoringConfig.get_smooth_params(*path) on an unchanging self.config = cfg
get_smooth_params(cfg, path) ==
    IF ConfiguredParams(cfg, path).outcome = "miss"
    THEN _get_default_params(cfg)
    ELSE ConfiguredParams(cfg, path)

\* the paths the scorers ask for, by their last segment
SmoothPaths ==
    [use_cases |-> <<"content_quality", "clarity", "use_cases">>,
     code_blocks |-> <<"content_quality", "technical_depth", "code_blocks">>,
     best_practices |->
        <<"content_quality", "technical_depth", "best_practices">>,
     sections |-> <<"content_quality", "documentation", "sections">>,
     examples |-> <<"content_quality", "documentation", "examples">>,
     code_block_count |->
        <<"technical_implementation", "code_quality", "code_block_count">>]

\* smooth_score(count, **params) with the params of a rubric
SmoothedWith(cfg, count, key) ==
    LET params == get_smooth_params(cfg, SmoothPaths[key]).value
    IN  SmoothScore(count, params.max_value.value, params.max_score.value)

\* smooth_score(count, **params) with the built-in rubric
Smoothed(count, key) == SmoothedWith(DEFAULT_CONFIG, count, key)

Min(a, b) == IF a <= b THEN a ELSE b

(***************************************************************************)
(* Documents: a body is a selection of sections out of a catalog           *)
(***************************************************************************)
\* CodeBlock records as _parse_code_blocks builds them
PythonBlock ==
    [language |-> "python", line_count |-> 12, has_comments |-> TRUE,
     is_complete |-> TRUE, has_error_handling |-> TRUE]

TypeScriptBlock ==
    [language |-> "typescript", line_count |-> 15, has_comments |-> FALSE,
     is_complete |-> TRUE, has_error_handling |-> FALSE]

BashBlock ==
    [language |-> "bash", line_count |-> 2, has_comments |-> FALSE,
     is_complete |-> FALSE, has_error_handling |-> FALSE]

UntaggedBlock ==
    [language |-> "unknown", line_count |-> 3, has_comments |-> FALSE,
     is_complete |-> FALSE, has_error_handling |-> FALSE]

\* a section without evidence of any kind: what the scorers read off a
\* section's heading and text
PlainSection ==
    [title |-> Chars("Overview"),
     use_cases |-> 0,               \* bullets under a "when to use" heading
     code_blocks |-> <<>>,
     when_to_use_kw |-> FALSE,      \* a keywords['when_to_use'] hit
     action_verbs |-> FALSE,
     best_practice_hits |-> 0,      \* keywords['best_practices'] occurrences
     patterns |-> {},               \* keywords['patterns'] entries found
     io_example |-> FALSE,
     example_hits |-> 0,            \* occurrences of "example"
     pitfall_kw |-> FALSE,
     step_by_step |-> FALSE,
     security_kw |-> FALSE,
     architecture_kw |-> FALSE,
     error_hits |-> 0,              \* keywords['error_handling'] occurrences
     quick_start_kw |-> FALSE,
     version_word |-> FALSE,        \* "version" occurs
     version_kw |-> FALSE,          \* version, v1, v2 ...
     dependency_kw |-> FALSE]

Catalog ==
    [when |->
        [PlainSection EXCEPT
            !.title = Chars("When to Use This Skill"),
            !.use_cases = 3, !.when_to_use_kw = TRUE, !.action_verbs = TRUE,
            !.architecture_kw = TRUE],
     quick |->
        [PlainSection EXCEPT
            !.title = Chars("Quick Start"),
            !.code_blocks = <<BashBlock, UntaggedBlock>>,
            !.step_by_step = TRUE, !.quick_start_kw = TRUE,
            !.dependency_kw = TRUE, !.version_word = TRUE,
            !.version_kw = TRUE],
     best |->
        [PlainSection EXCEPT
            !.title = Chars("Best Practices"),
            !.best_practice_hits = 2, !.pitfall_kw = TRUE,
            !.security_kw = TRUE],
     design |->
        [PlainSection EXCEPT
            !.title = Chars("Architecture Patterns"),
            !.patterns = {"factory", "singleton", "observer"},
            !.architecture_kw = TRUE],
     examples |->
        [PlainSection EXCEPT
            !.title = Chars("Examples"),
            !.code_blocks = <<PythonBlock, TypeScriptBlock, PythonBlock>>,
            !.io_example = TRUE, !.example_hits = 5],
     errors |->
        [PlainSection EXCEPT
            !.title = Chars("Error Handling and Common Pitfalls"),
            !.code_blocks = <<PythonBlock>>,
            !.error_hits = 5, !.pitfall_kw = TRUE],
     reuse |->
        [PlainSection EXCEPT
            !.title = Chars("Reusable Patterns"),
            !.patterns = {"factory"}, !.example_hits = 1,
            !.best_practice_hits = 1],
     \* text under no heading, with every kind of keyword evidence and no
     \* code fence
     prose |->
        [PlainSection EXCEPT
            !.title = <<>>,
            !.when_to_use_kw = TRUE, !.action_verbs = TRUE,
            !.best_practice_hits = 2,
            !.patterns = {"factory", "singleton", "observer"},
            !.io_example = TRUE, !.example_hits = 5, !.pitfall_kw = TRUE,
            !.step_by_step = TRUE, !.security_kw = TRUE,
            !.architecture_kw = TRUE, !.error_hits = 5,
            !.quick_start_kw = TRUE, !.version_word = TRUE,
            !.version_kw = TRUE, !.dependency_kw = TRUE]]

SectionIds == DOMAIN Catalog

\* the catalog entries that begin with a heading line
HeadedIds == {id \in SectionIds : Catalog[id].title # <<>>}

\* SkillDocument.sections of a body made of the catalog sections in ids
sections(d) == {Catalog[id] : id \in d.ids \cap HeadedIds}

\* SkillDocument.code_blocks: the fragments, each named by its section and
\* its position there
code_blocks(d) ==
    {<<id, i>> : id \in d.ids, i \in 1..3} \cap
    {ref \in SectionIds \X (1..3) : ref[2] <= Len(Catalog[ref[1]].code_blocks)}

Block(ref) == Catalog[ref[1]].code_blocks[ref[2]]

\* the section names the scorers ask for
SectionQueries ==
    {"When to Use", "Best Practice", "Pattern", "Architecture", "Example",
     "Pitfall", "Common Mistake", "Error", "Exception", "Quick Start",
     "Getting Started"}

\* for each catalog section, the names its title matches (Section.matches)
TitleMatches ==
    [id \in SectionIds |->
        {query \in SectionQueries : Matches(Catalog[id].title, Chars(query))}]

\* has_section answering by the body's text instead of its headings
HasSectionAnywhere(d, query) == d.ids # {}

\* SkillDocument.has_section(name)
has_section(d, query) == \E id \in d.ids : query \in TitleMatches[id]

RECURSIVE SumOver(_, _)
SumOver(f, S) ==
    IF S = {} THEN 0
    ELSE LET x == CHOOSE y \in S : TRUE
         IN  f[x] + SumOver(f, S \ {x})

\* utils.count_keyword_occurrences and friends summed over the body
Hits(d, field) ==
    SumOver([id \in SectionIds |-> Catalog[id][field]], d.ids)

AnySection(d, field) == \E id \in d.ids : Catalog[id][field]

\* utils.extract_use_cases: the bullets of the "when to use" section
use_case_count(d) == Hits(d, "use_cases")

\* utils.calculate_avg_line_length: 0.0 for a body without non-blank lines
avg_line_length(d) ==
    IF d.ids = {} THEN 0 ELSE IF d.wide THEN 60 ELSE 30

\* the bodies: any selection of headed sections, and the text without a
\* heading or a code fence
Documents ==
    {d \in [ids : SUBSET HeadedIds, wide : BOOLEAN] : d.ids = {} => ~d.wide}
    \cup {[ids |-> {"prose"}, wide |-> wide] : wide \in BOOLEAN}

(***************************************************************************)
(* ContentScorer (content_scorer.py), called with a SkillDocument          *)
(***************************************************************************)
_score_clarity(d, w) ==
    LET s1 == IF has_section(d, "When to Use") THEN 5
              ELSE IF AnySection(d, "when_to_use_kw") THEN 3 ELSE 0
        s2 == Smoothed(use_case_count(d), "use_cases")
        s3 == IF AnySection(d, "action_verbs") THEN 3 ELSE 0
    IN  Min(s1 + s2 + s3, w.clarity)

_score_input_output_examples(d) ==
    IF AnySection(d, "io_example") THEN 3 ELSE 0

_score_technical_depth(d, w) ==
    LET s1 == Smoothed(Cardinality(code_blocks(d)), "code_blocks")
        s2 == IF has_section(d, "Best Practice") THEN 5
              ELSE IF Hits(d, "best_practice_hits") > 0
                   THEN Smoothed(Hits(d, "best_practice_hits"), "best_practices")
                   ELSE 0
        s3 == IF has_section(d, "Pattern") \/ has_section(d, "Architecture")
              THEN 4
              ELSE IF \E id \in d.ids : Catalog[id].patterns # {} THEN 2 ELSE 0
    IN  Min(s1 + s2 + s3 + _score_input_output_examples(d), w.technical_depth)

_score_documentation(d, w) ==
    LET s1 == Smoothed(Cardinality(sections(d)), "sections")
        has_example == has_section(d, "Example") \/ Hits(d, "example_hits") > 0
        s2 == IF has_example
              THEN Smoothed(Hits(d, "example_hits"), "examples")
              ELSE 0
        s3 == IF has_section(d, "Pitfall") \/ has_section(d, "Common Mistake")
              THEN 3
              ELSE IF AnySection(d, "pitfall_kw") THEN 2 ELSE 0
    IN  Min(s1 + s2 + s3, w.documentation)

_score_actionability(d, w) ==
    LET s1 == IF AnySection(d, "step_by_step") THEN 3 ELSE 0
        s2 == IF Cardinality(code_blocks(d)) > 0 THEN 2 ELSE 0
    IN  Min(s1 + s2, w.actionability)

\* ContentScorer.score
ContentScore(d, w) ==
    LET clarity == _score_clarity(d, w)
        depth == _score_technical_depth(d, w)
        docs == _score_documentation(d, w)
        action == _score_actionability(d, w)
    IN  [total |-> clarity + depth + docs + action,
         max |-> w.total,
         subs |-> [clarity |-> clarity, technical_depth |-> depth,
                   documentation |-> docs, actionability |-> action],
         details |->
            [has_when_to_use |-> has_section(d, "When to Use"),
             use_cases_count |-> use_case_count(d),
             code_blocks_count |-> Cardinality(code_blocks(d)),
             sections_count |-> Cardinality(sections(d)),
             has_best_practices |-> Hits(d, "best_practice_hits") > 0,
             has_step_by_step |-> AnySection(d, "step_by_step")]]

(***************************************************************************)
(* TechnicalScorer (technical_scorer.py), called with a SkillDocument      *)
(***************************************************************************)
_score_code_diversity(d) ==
    LET languages == {Block(ref).language : ref \in code_blocks(d)} \ {"unknown"}
    IN  IF code_blocks(d) = {} THEN 0
        ELSE IF Cardinality(languages) >= 3 THEN 3
        ELSE IF Cardinality(languages) >= 2 THEN 2
        ELSE IF Cardinality(languages) >= 1 THEN 1
        ELSE 0

_score_example_quality(d) ==
    LET blocks == code_blocks(d)
        s1 == IF \E ref \in blocks : Block(ref).is_complete THEN 2 ELSE 0
        s2 == IF \E ref \in blocks : Block(ref).has_comments THEN 1 ELSE 0
        good_length_blocks ==
            {ref \in blocks : 10 <= Block(ref).line_count /\ Block(ref).line_count <= 50}
        s3 == IF Cardinality(good_length_blocks) >= 2 THEN 2
              ELSE IF Cardinality(good_length_blocks) >= 1 THEN 1 ELSE 0
    IN  IF blocks = {} THEN 0 ELSE Min(s1 + s2 + s3, 4)

_score_code_quality(d, w) ==
    LET s1 == Smoothed(Cardinality(code_blocks(d)), "code_block_count")
        s4 == IF AnySection(d, "security_kw") THEN 3 ELSE 0
    IN  Min(s1 + _score_code_diversity(d) + _score_example_quality(d) + s4,
            w.code_quality)

\* the body text holds the fragments too, so one scan covers both searches
_detect_patterns(d) == UNION {Catalog[id].patterns : id \in d.ids}

_score_pattern_design(d, w) ==
    LET pattern_count == Cardinality(_detect_patterns(d))
        s1 == IF pattern_count >= 3 THEN 6
              ELSE IF pattern_count >= 2 THEN 4
              ELSE IF pattern_count >= 1 THEN 2 ELSE 0
        s2 == IF has_section(d, "Architecture") \/ has_section(d, "Pattern")
              THEN 4
              ELSE IF AnySection(d, "architecture_kw") THEN 2 ELSE 0
    IN  Min(s1 + s2, w.pattern_design)

_score_error_handling(d, w) ==
    LET error_count == Hits(d, "error_hits")
        s1 == IF error_count >= 5 THEN 3
              ELSE IF error_count >= 2 THEN 2
              ELSE IF error_count >= 1 THEN 1 ELSE 0
        s2 == IF has_section(d, "Error") \/ has_section(d, "Exception")
              THEN 2 ELSE 0
    IN  Min(s1 + s2, w.error_handling)

\* TechnicalScorer.score
TechnicalScore(d, w) ==
    LET quality == _score_code_quality(d, w)
        pattern == _score_pattern_design(d, w)
        errors == _score_error_handling(d, w)
    IN  [total |-> quality + pattern + errors,
         max |-> w.total,
         subs |-> [code_quality |-> quality, pattern_design |-> pattern,
                   error_handling |-> errors],
         details |->
            [code_blocks_count |-> Cardinality(code_blocks(d)),
             has_security_keywords |-> AnySection(d, "security_kw"),
             design_patterns_found |-> _detect_patterns(d),
             has_error_handling |->
                \/ \E ref \in code_blocks(d) : Block(ref).has_error_handling
                \/ Hits(d, "error_hits") > 0]]

(***************************************************************************)
(* UXScorer (ux_scorer.py), called with a SkillDocument                    *)
(***************************************************************************)
_score_ease_of_use(d, w) ==
    LET s1 == IF has_section(d, "Quick Start") \/ has_section(d, "Getting Started")
              THEN 3
              ELSE IF AnySection(d, "quick_start_kw") THEN 2 ELSE 0
        s2 == IF use_case_count(d) > 0 THEN 2 ELSE 0
    IN  Min(s1 + s2, w.ease_of_use)

_score_readability(d, w, analysis) ==
    LET avg == avg_line_length(d)
        s1 == IF analysis.ideal_avg_line_length_min <= avg
                 /\ avg <= analysis.ideal_avg_line_length_max
              THEN 3
              ELSE IF avg > 0 THEN 1 ELSE 0
        sections_count == Cardinality(sections(d))
        min_sections == analysis.min_sections_for_full_score
        s2 == IF sections_count >= min_sections THEN 2
              ELSE IF sections_count >= min_sections \div 2 THEN 1 ELSE 0
    IN  Min(s1 + s2, w.readability)

\* UXScorer.score
UXScore(d, w, analysis) ==
    LET ease == _score_ease_of_use(d, w)
        readability == _score_readability(d, w, analysis)
    IN  [total |-> ease + readability,
         max |-> w.total,
         subs |-> [ease_of_use |-> ease, readability |-> readability],
         details |->
            [has_quick_start |-> AnySection(d, "quick_start_kw"),
             use_cases_count |-> use_case_count(d),
             sections_count |-> Cardinality(sections(d)),
             avg_line_length |-> avg_line_length(d)]]

(***************************************************************************)
(* The scorers called with the body text (doc is None): the helpers of     *)
(* utils.py stand in for the SkillDocument                                 *)
(***************************************************************************)
\* utils.has_section: the variants it adds to a name (the ones in Chinese
\* occur in no title of the catalog)
section_variants(section_name) ==
    CASE section_name = "When to Use" ->
            {"when to use", "when to use this skill", "usage scenario",
             "use cases", "when should"}
      [] section_name = "Quick Start" ->
            {"quick start", "getting started", "quickstart", "get started"}
      [] section_name = "Best Practice" ->
            {"best practice", "best practices", "recommendations", "guidelines"}
      [] section_name = "Example" -> {"example", "examples", "usage example"}
      [] OTHER -> {}

\* the heading pattern of utils.has_section on one heading: the variant
\* anywhere in the title, letter case ignored
HeadingHolds(ttl, variant) ==
    \E p \in 0..Len(ttl) : LiteralAt(Lower(ttl), Lower(Chars(variant)), p)

\* for each catalog section, the names utils.has_section finds in its heading
TextTitleMatches ==
    [id \in SectionIds |->
        {query \in SectionQueries :
            \E variant \in {query} \cup section_variants(query) :
                HeadingHolds(Catalog[id].title, variant)}]

\* utils.has_section(content, section_name)
utils_has_section(d, query) == \E id \in d.ids : query \in TextTitleMatches[id]

\* utils.count_code_blocks and utils.count_sections on a body whose fences
\* pair up and whose headings stand outside them
count_code_blocks(d) == Cardinality(code_blocks(d))

count_sections(d) == Cardinality(sections(d))

\* ContentScorer._score_clarity(content, None)
ClarityOfText(d, w) ==
    LET s1 == IF utils_has_section(d, "When to Use") THEN 5
              ELSE IF AnySection(d, "when_to_use_kw") THEN 3 ELSE 0
        s2 == Smoothed(use_case_count(d), "use_cases")
        s3 == IF AnySection(d, "action_verbs") THEN 3 ELSE 0
    IN  Min(s1 + s2 + s3, w.clarity)

\* ContentScorer._score_technical_depth(content, None)
TechnicalDepthOfText(d, w) ==
    LET s1 == Smoothed(count_code_blocks(d), "code_blocks")
        s2 == IF utils_has_section(d, "Best Practice") THEN 5
              ELSE IF Hits(d, "best_practice_hits") > 0
                   THEN Smoothed(Hits(d, "best_practice_hits"), "best_practices")
                   ELSE 0
        s3 == IF utils_has_section(d, "Pattern")
                 \/ utils_has_section(d, "Architecture")
              THEN 4
              ELSE IF \E id \in d.ids : Catalog[id].patterns # {} THEN 2 ELSE 0
    IN  Min(s1 + s2 + s3 + _score_input_output_examples(d), w.technical_depth)

\* ContentScorer._score_documentation(content, None)
DocumentationOfText(d, w) ==
    LET s1 == Smoothed(count_sections(d), "sections")
        has_example ==
            utils_has_section(d, "Example") \/ Hits(d, "example_hits") > 0
        s2 == IF has_example
              THEN Smoothed(Hits(d, "example_hits"), "examples")
              ELSE 0
        s3 == IF utils_has_section(d, "Pitfall")
                 \/ utils_has_section(d, "Common Mistake")
              THEN 3
              ELSE IF AnySection(d, "pitfall_kw") THEN 2 ELSE 0
    IN  Min(s1 + s2 + s3, w.documentation)

\* ContentScorer._score_actionability(content, None)
ActionabilityOfText(d, w) ==
    LET s1 == IF AnySection(d, "step_by_step") THEN 3 ELSE 0
        s2 == IF count_code_blocks(d) > 0 THEN 2 ELSE 0
    IN  Min(s1 + s2, w.actionability)

\* ContentScorer.score(content, metadata) with content a str
ContentScoreOfText(d, w) ==
    LET clarity == ClarityOfText(d, w)
        depth == TechnicalDepthOfText(d, w)
        docs == DocumentationOfText(d, w)
        action == ActionabilityOfText(d, w)
    IN  [total |-> clarity + depth + docs + action,
         max |-> w.total,
         subs |-> [clarity |-> clarity, technical_depth |-> depth,
                   documentation |-> docs, actionability |-> action],
         details |->
            [has_when_to_use |-> utils_has_section(d, "When to Use"),
             use_cases_count |-> use_case_count(d),
             code_blocks_count |-> count_code_blocks(d),
             sections_count |-> count_sections(d),
             has_best_practices |-> Hits(d, "best_practice_hits") > 0,
             has_step_by_step |-> AnySection(d, "step_by_step")]]

\* TechnicalScorer._score_code_quality(content, None): without fragments to
\* inspect, diversity and example quality are read off the fragment count
CodeQualityOfText(d, w) ==
    LET code_block_count == count_code_blocks(d)
        s1 == Smoothed(code_block_count, "code_block_count")
        fallback == IF code_block_count >= 3 THEN 2 + 2
                    ELSE IF code_block_count >= 1 THEN 1 + 1 ELSE 0
        s4 == IF AnySection(d, "security_kw") THEN 3 ELSE 0
    IN  Min(s1 + fallback + s4, w.code_quality)

\* TechnicalScorer._score_pattern_design(content, None)
PatternDesignOfText(d, w) ==
    LET pattern_count == Cardinality(_detect_patterns(d))
        s1 == IF pattern_count >= 3 THEN 6
              ELSE IF pattern_count >= 2 THEN 4
              ELSE IF pattern_count >= 1 THEN 2 ELSE 0
        s2 == IF utils_has_section(d, "Architecture")
                 \/ utils_has_section(d, "Pattern")
              THEN 4
              ELSE IF AnySection(d, "architecture_kw") THEN 2 ELSE 0
    IN  Min(s1 + s2, w.pattern_design)

\* TechnicalScorer._score_error_handling(content, None)
ErrorHandlingOfText(d, w) ==
    LET error_count == Hits(d, "error_hits")
        s1 == IF error_count >= 5 THEN 3
              ELSE IF error_count >= 2 THEN 2
              ELSE IF error_count >= 1 THEN 1 ELSE 0
        s2 == IF utils_has_section(d, "Error") \/ utils_has_section(d, "Exception")
              THEN 2 ELSE 0
    IN  Min(s1 + s2, w.error_handling)

\* TechnicalScorer.score(content) with content a str
TechnicalScoreOfText(d, w) ==
    LET quality == CodeQualityOfText(d, w)
        pattern == PatternDesignOfText(d, w)
        errors == ErrorHandlingOfText(d, w)
    IN  [total |-> quality + pattern + errors,
         max |-> w.total,
         subs |-> [code_quality |-> quality, pattern_design |-> pattern,
                   error_handling |-> errors],
         details |->
            [code_blocks_count |-> count_code_blocks(d),
             has_security_keywords |-> AnySection(d, "security_kw"),
             design_patterns_found |-> _detect_patterns(d),
             has_error_handling |-> Hits(d, "error_hits") > 0]]

\* UXScorer._score_ease_of_use(content, None)
EaseOfUseOfText(d, w) ==
    LET s1 == IF utils_has_section(d, "Quick Start")
                 \/ utils_has_section(d, "Getting Started")
              THEN 3
              ELSE IF AnySection(d, "quick_start_kw") THEN 2 ELSE 0
        s2 == IF use_case_count(d) > 0 THEN 2 ELSE 0
    IN  Min(s1 + s2, w.ease_of_use)

\* UXScorer._score_readability(content, None)
ReadabilityOfText(d, w, analysis) ==
    LET avg == avg_line_length(d)
        s1 == IF analysis.ideal_avg_line_length_min <= avg
                 /\ avg <= analysis.ideal_avg_line_length_max
              THEN 3
              ELSE IF avg > 0 THEN 1 ELSE 0
        sections_count == count_sections(d)
        min_sections == analysis.min_sections_for_full_score
        s2 == IF sections_count >= min_sections THEN 2
              ELSE IF sections_count >= min_sections \div 2 THEN 1 ELSE 0
    IN  Min(s1 + s2, w.readability)

\* UXScorer.score(content) with content a str
UXScoreOfText(d, w, analysis) ==
    LET ease == EaseOfUseOfText(d, w)
        readability == ReadabilityOfText(d, w, analysis)
    IN  [total |-> ease + readability,
         max |-> w.total,
         subs |-> [ease_of_use |-> ease, readability |-> readability],
         details |->
            [has_quick_start |-> AnySection(d, "quick_start_kw"),
             use_cases_count |-> use_case_count(d),
             sections_count |-> count_sections(d),
             avg_line_length |-> avg_line_length(d)]]

(***************************************************************************)
(* MaintenanceScorer (maintenance_scorer.py)                               *)
(*                                                                         *)
(* Times are counted in thousands: a timestamp in seconds is held in       *)
(* kiloseconds, one in milliseconds in thousands of milliseconds, so that  *)
(* both fit the checker's integers.  A day is 86.4 kiloseconds.            *)
(***************************************************************************)
\* datetime.now(), in kiloseconds since the epoch
Now == 1793923

\* the threshold 1e11 above which updatedAt is taken as milliseconds
MillisThreshold == 100000000

\* metadata.json contents; exists = FALSE is the value None
NoMetadata ==
    [exists |-> FALSE, has_updatedAt |-> FALSE, updatedAt_is_number |-> FALSE,
     updatedAt |-> 0, has_stars |-> FALSE, stars |-> 0]

\* a record updated age days ago, the timestamp written in seconds
MetadataOf(age, stars) ==
    [exists |-> TRUE, has_updatedAt |-> TRUE, updatedAt_is_number |-> TRUE,
     updatedAt |-> Now - (age * 432) \div 5, has_stars |-> TRUE, stars |-> stars]

\* ages in days, one per recency tier, and star counts, one per tier
AgeDays == {5, 120, 200, 405}
StarCounts == {0, 5, 50, 500, 5000, 50000}

MetadataRecords ==
    {MetadataOf(age, 500) : age \in AgeDays}
    \cup {MetadataOf(5, stars) : stars \in StarCounts}
    \cup {[MetadataOf(5, 500) EXCEPT !.updatedAt = @ * 1000],
          [MetadataOf(5, 500) EXCEPT !.updatedAt_is_number = FALSE],
          [MetadataOf(5, 50) EXCEPT !.has_updatedAt = FALSE],
          [MetadataOf(5, 0) EXCEPT !.has_stars = FALSE]}

\* _calculate_days_since_update with every value read as milliseconds
DaysAllMilliseconds(metadata) ==
    IF ~metadata.exists \/ ~metadata.has_updatedAt
    THEN [none |-> TRUE, days |-> 0]
    ELSE IF ~metadata.updatedAt_is_number
    THEN [none |-> TRUE, days |-> 0]
    ELSE [none |-> FALSE,
          days |-> ((Now - metadata.updatedAt \div 1000) * 5) \div 432]

\* MaintenanceScorer._calculate_days_since_update: none = TRUE is None
_calculate_days_since_update(metadata) ==
    IF ~metadata.exists \/ ~metadata.has_updatedAt
    THEN [none |-> TRUE, days |-> 0]
    ELSE IF ~metadata.updatedAt_is_number
    THEN [none |-> TRUE, days |-> 0]
    ELSE LET ts == IF metadata.updatedAt > MillisThreshold
                   THEN metadata.updatedAt \div 1000
                   ELSE metadata.updatedAt
         IN  [none |-> FALSE, days |-> ((Now - ts) * 5) \div 432]

\* the comparison  days_since_update < ...  raises TypeError on None
UpdateFrequencyRaises(metadata) ==
    /\ metadata.exists
    /\ metadata.has_updatedAt
    /\ _calculate_days_since_update(metadata).none

\* _score_update_frequency without the last step at 365 days
UpdateFrequencyWithoutExpiry(metadata, analysis) ==
    IF ~metadata.exists \/ ~metadata.has_updatedAt THEN 0
    ELSE LET days == _calculate_days_since_update(metadata).days
         IN  IF days < analysis.recent_update_days THEN 3
             ELSE IF days < analysis.active_update_days THEN 2
             ELSE 1

\* MaintenanceScorer._score_update_frequency, when the age is not None
_score_update_frequency(metadata, analysis) ==
    IF ~metadata.exists \/ ~metadata.has_updatedAt THEN 0
    ELSE LET days == _calculate_days_since_update(metadata).days
         IN  IF days < analysis.recent_update_days THEN 3
             ELSE IF days < analysis.active_update_days THEN 2
             ELSE IF days < 365 THEN 1
             ELSE 0

_score_community_activity(metadata, st) ==
    IF ~metadata.exists \/ ~metadata.has_stars THEN 0
    ELSE IF metadata.stars >= st.excellent THEN 5
    ELSE IF metadata.stars >= st.good THEN 4
    ELSE IF metadata.stars >= st.fair THEN 3
    ELSE IF metadata.stars >= 10 THEN 2
    ELSE IF metadata.stars >= 1 THEN 1
    ELSE 0

_score_compatibility(d, w) ==
    LET s1 == IF AnySection(d, "version_kw") THEN 1 ELSE 0
        s2 == IF AnySection(d, "dependency_kw") THEN 1 ELSE 0
    IN  Min(s1 + s2, w.compatibility)

\* MaintenanceScorer.score, when _score_update_frequency does not raise
MaintenanceScore(metadata, d, cfg) ==
    LET w == cfg.weights.maintenance
        update == _score_update_frequency(metadata, cfg.analysis)
        community == _score_community_activity(metadata, cfg.stars_thresholds)
        compatibility == _score_compatibility(d, w)
    IN  [total |-> update + community + compatibility,
         max |-> w.total,
         subs |-> [update_frequency |-> update,
                   community_activity |-> community,
                   compatibility |-> compatibility],
         details |->
            [has_metadata |-> metadata.exists,
             days_since_update |-> _calculate_days_since_update(metadata),
             stars |-> IF metadata.exists /\ metadata.has_stars
                       THEN metadata.stars ELSE 0,
             has_version_info |-> AnySection(d, "version_word")]]

(***************************************************************************)
(* The aggregator (skill_analyzer.py)                                      *)
(***************************************************************************)
\* SkillAnalyzer._get_grade with strict comparisons
GradeStrict(total_score, thresholds) ==
    IF total_score > thresholds.S THEN "S"
    ELSE IF total_score > thresholds.A THEN "A"
    ELSE IF total_score > thresholds.B THEN "B"
    ELSE IF total_score > thresholds.C THEN "C"
    ELSE "D"

\* SkillAnalyzer._get_grade
_get_grade(total_score, thresholds) ==
    IF total_score >= thresholds.S THEN "S"
    ELSE IF total_score >= thresholds.A THEN "A"
    ELSE IF total_score >= thresholds.B THEN "B"
    ELSE IF total_score >= thresholds.C THEN "C"
    ELSE "D"

When(cond, text) == IF cond THEN <<text>> ELSE <<>>

\* _generate_recommendations cut after five entries
RecommendationsCapped(cs, ts, ms, us) ==
    LET all ==
            When(~cs.details.has_when_to_use, "content: add When to Use")
            \o When(cs.details.use_cases_count < 3, "content: more use cases")
            \o When(cs.details.code_blocks_count < 3, "content: more code examples")
            \o When(~cs.details.has_best_practices, "content: add best practices")
            \o When(~ts.details.has_security_keywords, "technical: add security")
            \o When(ts.details.design_patterns_found = {}, "technical: add patterns")
            \o When(~ts.details.has_error_handling, "technical: add error handling")
            \o When(/\ ~ms.details.days_since_update.none
                    /\ ms.details.days_since_update.days # 0
                    /\ ms.details.days_since_update.days > 180,
                    "maintenance: outdated")
            \o When(~ms.details.has_version_info, "maintenance: add version info")
            \o When(~us.details.has_quick_start, "ux: add quick start")
            \o When(us.details.sections_count < 4, "ux: more sections")
    IN  SubSeq(all, 1, Min(5, Len(all)))

\* SkillAnalyzer._generate_recommendations, each string by a short name
_generate_recommendations(cs, ts, ms, us) ==
    When(~cs.details.has_when_to_use, "content: add When to Use")
    \o When(cs.details.use_cases_count < 3, "content: more use cases")
    \o When(cs.details.code_blocks_count < 3, "content: more code examples")
    \o When(~cs.details.has_best_practices, "content: add best practices")
    \o When(~ts.details.has_security_keywords, "technical: add security")
    \o When(ts.details.design_patterns_found = {}, "technical: add patterns")
    \o When(~ts.details.has_error_handling, "technical: add error handling")
    \o When(/\ ~ms.details.days_since_update.none
            /\ ms.details.days_since_update.days # 0
            /\ ms.details.days_since_update.days > 180,
            "maintenance: outdated")
    \o When(~ms.details.has_version_info, "maintenance: add version info")
    \o When(~us.details.has_quick_start, "ux: add quick start")
    \o When(us.details.sections_count < 4, "ux: more sections")

(***************************************************************************)
(* Parsing of SKILL.md (skill_document.py).  A text is the sequence of its *)
(* lines, text.split('\n'), each line a string.  TLA+ strings cannot hold  *)
(* the backtick: in the lines below the apostrophe stands for it.          *)
(***************************************************************************)
\* \s inside a line
IsSpace(c) == c \in {" ", "\t"}

CharAt(line, i) == SubSeq(line, i, i)

\* the line holds whitespace only
IsBlankLine(line) == \A i \in 1..Len(line) : IsSpace(CharAt(line, i))

AllBlank(lines, from, to) == \A i \in from..to : IsBlankLine(lines[i])

Largest(S) == CHOOSE x \in S : \A y \in S : y <= x

Smallest(S) == CHOOSE x \in S : \A y \in S : x <= y

\* str.strip() of a line
Strip(line) ==
    LET keep == {i \in 1..Len(line) : ~IsSpace(CharAt(line, i))}
    IN  IF keep = {} THEN "" ELSE SubSeq(line, Smallest(keep), Largest(keep))

\* str.lower() of a line
RECURSIVE LowerLine(_)
LowerLine(line) ==
    IF Len(line) = 0 THEN ""
    ELSE LowerChar(CharAt(line, 1)) \o LowerLine(SubSeq(line, 2, Len(line)))

\* lit occurs in the line
LineContains(line, lit) ==
    \E p \in 0..(Len(line) - Len(lit)) : SubSeq(line, p + 1, p + Len(lit)) = lit

\* '\n'.join(lines) as a text: the empty string is one empty line
JoinLines(lines) == IF lines = <<>> THEN <<"">> ELSE lines

\* ---\s*\n : the line is --- followed by whitespace up to its newline
IsFenceLine(line) ==
    /\ Len(line) >= 3
    /\ SubSeq(line, 1, 3) = "---"
    /\ IsBlankLine(SubSeq(line, 4, Len(line)))

\* the lines at which group 1 of ^---\s*\n(.*?)\n---\s*\n(.*)$ can begin:
\* \s* takes the rest of the first line and any blank lines after it
BlockStarts(lines) ==
    IF IsFenceLine(lines[1])
    THEN {j \in 2..Len(lines) : AllBlank(lines, 2, j - 1)}
    ELSE {}

\* the lines \n---\s*\n can match after a block that begins at line j: a
\* fence line with a newline after it
ClosingFences(lines, j) ==
    {c \in (j + 1)..(Len(lines) - 1) : IsFenceLine(lines[c])}

\* re.match(pattern, raw, re.DOTALL): \s* is greedy, so the block begins as
\* late as a match allows; (.*?) is lazy, so it ends at the first closing
\* fence; the \s* after that fence takes the blank lines that follow it
FrontmatterMatch(lines) ==
    LET starts == {j \in BlockStarts(lines) : ClosingFences(lines, j) # {}}
    IN  IF starts = {} THEN [matched |-> FALSE]
        ELSE LET j == Largest(starts)
                 c == Smallest(ClosingFences(lines, j))
                 b == Largest({k \in (c + 1)..Len(lines) :
                                  AllBlank(lines, c + 1, k - 1)})
             IN  [matched |-> TRUE,
                  group1 |-> SubSeq(lines, j, c - 1),
                  group2 |-> SubSeq(lines, b, Len(lines))]

\* yaml.safe_load(block): a block with an open flow sequence or with a
\* backtick cannot be scanned (YAMLError); a block that can, with a date that
\* no calendar has, fails when the date is built (ValueError); else the
\* entries of the block, None for a block of blank lines, comments and the
\* document marker
safe_load(block) ==
    IF \E i \in 1..Len(block) :
          LineContains(block[i], "[") \/ LineContains(block[i], "'")
    THEN Raises("YAMLError")
    ELSE IF \E i \in 1..Len(block) : LineContains(block[i], "2023-02-30")
    THEN Raises("ValueError")
    ELSE LET entries == {block[i] : i \in {k \in 1..Len(block) :
                            /\ ~IsBlankLine(block[k])
                            /\ ~IsFenceLine(block[k])
                            /\ CharAt(block[k], 1) # "#"}}
         IN  Returns(IF entries = {} THEN {} ELSE {entries})

\* SkillDocument._parse_frontmatter on raw_content; None is {}.  Only
\* yaml.YAMLError is caught
_parse_frontmatter(raw) ==
    LET match == FrontmatterMatch(raw)
    IN  IF ~match.matched
        THEN Returns([yaml_frontmatter |-> {}, markdown_body |-> raw])
        ELSE IF safe_load(match.group1).outcome = "returns"
        THEN Returns([yaml_frontmatter |-> safe_load(match.group1).value,
                      markdown_body |-> match.group2])
        ELSE IF safe_load(match.group1).error = "YAMLError"
        THEN Returns([yaml_frontmatter |-> {}, markdown_body |-> raw])
        ELSE safe_load(match.group1)

\* ^(#{1,6}) : the number of # the line begins with
HashCount(line) ==
    Largest({h \in 0..Len(line) : \A i \in 1..h : CharAt(line, i) = "#"})

\* re.match(r'^(#{1,6})\s+(.+)$', line): one to six #, whitespace, and at
\* least one more character
IsHeading(line) ==
    LET h == HashCount(line)
    IN  /\ h \in 1..6
        /\ Len(line) >= h + 2
        /\ IsSpace(CharAt(line, h + 1))

\* the Section opened with a line number counted from 1
OpenedSectionFromOne(line, i) ==
    [title |-> Strip(SubSeq(line, HashCount(line) + 1, Len(line))),
     level |-> HashCount(line),
     content |-> <<"">>,
     start_line |-> i + 1,
     end_line |-> -1]

\* the Section a heading line opens; i is the index of the line, from 0
OpenedSection(line, i) ==
    [title |-> Strip(SubSeq(line, HashCount(line) + 1, Len(line))),
     level |-> HashCount(line),
     content |-> <<"">>,
     start_line |-> i,
     end_line |-> -1]

\* a closing that leaves out the last line of the section
ClosedSectionShort(current, content_lines, last) ==
    [current EXCEPT
        !.content = JoinLines(SubSeq(content_lines, 1, Len(content_lines) - 1)),
        !.end_line = last - 1]

\* the section as it is appended: its content joined, its end_line set
ClosedSection(current, content_lines, last) ==
    [current EXCEPT !.content = JoinLines(content_lines), !.end_line = last]

\* the loop of _parse_sections from line index i on; current_section is {}
\* for None
RECURSIVE SectionsLoop(_, _, _, _, _)
SectionsLoop(lines, i, current_section, content_lines, done) ==
    IF i = Len(lines)
    THEN IF current_section = {} THEN done
         ELSE LET cur == CHOOSE c \in current_section : TRUE
              IN  Append(done,
                         ClosedSection(cur, content_lines, Len(lines) - 1))
    ELSE LET line == lines[i + 1]
         IN  IF IsHeading(line)
             THEN SectionsLoop(lines, i + 1, {OpenedSection(line, i)}, <<>>,
                      IF current_section = {} THEN done
                      ELSE LET cur == CHOOSE c \in current_section : TRUE
                           IN  Append(done,
                                   ClosedSection(cur, content_lines, i - 1)))
             ELSE SectionsLoop(lines, i + 1, current_section,
                      IF current_section = {} THEN content_lines
                      ELSE Append(content_lines, line),
                      done)

\* a parser that returns its list before the last section is appended
ParseSectionsPartial(body) ==
    SubSeq(SectionsLoop(body, 0, {}, <<>>, <<>>), 1,
           Len(SectionsLoop(body, 0, {}, <<>>, <<>>)) - 1)

\* a parser that reads the lines between code fences as blank
ParseSectionsOutsideFences(body) ==
    LET fences == {f \in 1..Len(body) :
                      Len(body[f]) >= 3 /\ SubSeq(body[f], 1, 3) = "'''"}
        masked == [i \in 1..Len(body) |->
                      IF Cardinality({f \in fences : f < i}) % 2 = 1
                      THEN "" ELSE body[i]]
    IN  SectionsLoop(masked, 0, {}, <<>>, <<>>)

\* SkillDocument._parse_sections on markdown_body
_parse_sections(body) == SectionsLoop(body, 0, {}, <<>>, <<>>)

\* the code fence; the apostrophe stands for the backtick
Ticks == "'''"

\* the fence begins at column p of the line
TicksAt(line, p) == p + 2 <= Len(line) /\ SubSeq(line, p, p + 2) = Ticks

\* (\w*) : the word characters the text begins with
WordPrefix(text) ==
    SubSeq(text, 1,
           Largest({t \in 0..Len(text) :
                       \A i \in 1..t : IsWordChar(CharAt(text, i))}))

\* (\w*)[ \t]*\n : after the fence at column p the line holds a tag and
\* blanks only
OpensAt(line, p) ==
    /\ TicksAt(line, p)
    /\ LET rest == SubSeq(line, p + 3, Len(line))
       IN  IsBlankLine(SubSeq(rest, Len(WordPrefix(rest)) + 1, Len(rest)))

\* the <<line, column>> positions of the lines from..to
Positions(lines, from, to) ==
    UNION {{<<k, p>> : p \in 1..Len(lines[k])} : k \in from..to}

\* the first of a set of <<line, column>> positions
FirstPosition(S) ==
    CHOOSE x \in S : \A y \in S : x[1] < y[1] \/ (x[1] = y[1] /\ x[2] <= y[2])

\* the positions at or after <<k, p>> where the pattern can begin: an
\* opening fence whose line is followed by a newline
Openings(lines, k, p) ==
    {x \in Positions(lines, k, Len(lines) - 1) :
        /\ x[1] > k \/ x[2] >= p
        /\ OpensAt(lines[x[1]], x[2])}

\* (.*?) and the closing fence: the fences after the line k of an opening
Closings(lines, k) ==
    {x \in Positions(lines, k + 1, Len(lines)) : TicksAt(lines[x[1]], x[2])}

\* one alternative of a pattern, a.*b, found inside a line
RECURSIVE LineMatches(_, _)
LineMatches(line, pieces) ==
    IF pieces = <<>> THEN TRUE
    ELSE \E p \in 0..(Len(line) - Len(pieces[1])) :
            /\ SubSeq(line, p + 1, p + Len(pieces[1])) = pieces[1]
            /\ LineMatches(SubSeq(line, p + Len(pieces[1]) + 1, Len(line)),
                           Tail(pieces))

\* re.search(pattern, code) for a pattern given by its alternatives
SearchCode(alternatives, code) ==
    \E i \in 1..Len(code) : \E a \in alternatives : LineMatches(code[i], a)

\* comment_patterns.get(language.lower(), r'#|//')
comment_patterns(language) ==
    LET l == LowerLine(language)
    IN  IF l \in {"python", "bash", "shell"} THEN {<<"#">>}
        ELSE IF l \in {"javascript", "typescript", "java"} THEN {<<"//">>}
        ELSE {<<"#">>, <<"//">>}

_detect_comments(code, language) == SearchCode(comment_patterns(language), code)

\* completeness_patterns.get(language.lower(), r'(function|class|def)')
completeness_patterns(language) ==
    LET l == LowerLine(language)
    IN  IF l = "python" THEN {<<"def ">>, <<"class ">>, <<"async def ">>}
        ELSE IF l = "javascript"
        THEN {<<"function ">>, <<"class ">>, <<"const ", " = ">>,
              <<"let ", " = ">>}
        ELSE IF l = "typescript"
        THEN {<<"function ">>, <<"class ">>, <<"const ", " = ">>,
              <<"interface ">>, <<"type ">>}
        ELSE IF l = "java"
        THEN {<<"public ">>, <<"private ">>, <<"protected ">>, <<"class ">>,
              <<"interface ">>}
        ELSE {<<"function">>, <<"class">>, <<"def">>}

_detect_completeness(code, language) ==
    SearchCode(completeness_patterns(language), code)

\* error_handling_patterns.get(language.lower(), r'(try|catch|except|error)')
error_handling_patterns(language) ==
    LET l == LowerLine(language)
    IN  IF l = "python"
        THEN {<<"try:">>, <<"except ">>, <<"raise ">>, <<"assert ">>}
        ELSE IF l \in {"javascript", "typescript"}
        THEN {<<"try {">>, <<"catch">>, <<"throw ">>, <<".catch(">>}
        ELSE IF l = "java"
        THEN {<<"try {">>, <<"catch">>, <<"throw">>}
        ELSE {<<"try">>, <<"catch">>, <<"except">>, <<"error">>}

\* re.search(pattern, code, re.IGNORECASE)
_detect_error_handling(code, language) ==
    SearchCode(error_handling_patterns(language),
           [i \in 1..Len(code) |-> LowerLine(code[i])])

\* len(code.strip().split('\n'))
LineCount(code) ==
    LET full == {i \in 1..Len(code) : ~IsBlankLine(code[i])}
    IN  IF full = {} THEN 1 ELSE Largest(full) - Smallest(full) + 1

\* the language with its letters lowered
LanguageLowered(tag) == IF tag = "" THEN "unknown" ELSE LowerLine(tag)

\* language = match.group(1) or 'unknown'
Language(tag) == IF tag = "" THEN "unknown" ELSE tag

\* the CodeBlock built from one match: its opening fence at column p of
\* line k, its closing fence at column q of line c
BlockOf(lines, k, p, c, q) ==
    LET language == Language(WordPrefix(SubSeq(lines[k], p + 3, Len(lines[k]))))
        code == SubSeq(lines, k + 1, c - 1) \o <<SubSeq(lines[c], 1, q - 1)>>
    IN  [language |-> language,
         content |-> code,
         line_count |-> LineCount(code),
         has_comments |-> _detect_comments(code, language),
         is_complete |-> _detect_completeness(code, language),
         has_error_handling |-> _detect_error_handling(code, language)]

\* re.finditer from position <<k, p>> on: the next opening that has a
\* closing fence, its block, and the scan again behind the closing fence
RECURSIVE BlocksFrom(_, _, _, _)
BlocksFrom(lines, k, p, blocks) ==
    IF Openings(lines, k, p) = {} THEN blocks
    ELSE LET o == FirstPosition(Openings(lines, k, p))
         IN  IF Closings(lines, o[1]) = {} THEN blocks
             ELSE LET c == FirstPosition(Closings(lines, o[1]))
                  IN  BlocksFrom(lines, c[1], c[2] + 3,
                          Append(blocks, BlockOf(lines, o[1], o[2], c[1], c[2])))

\* SkillDocument._parse_code_blocks on markdown_body
_parse_code_blocks(body) == BlocksFrom(body, 1, 1, <<>>)

(***************************************************************************)
(* Idle values of the components that a specification does not run         *)
(***************************************************************************)
MatchIdle ==
    /\ title = <<>>
    /\ name = <<>>
    /\ matched = FALSE

SmoothIdle ==
    /\ value = 0
    /\ value2 = 0
    /\ max_value = 0
    /\ max_score = 0
    /\ score = 0
    /\ score2 = 0

AnalysisIdle ==
    /\ skill_md = [exists |-> FALSE, body |-> [ids |-> {}, wide |-> FALSE]]
    /\ metadata_json = [state |-> "absent", data |-> NoMetadata]
    /\ config = DefaultConfig
    /\ doc = {}
    /\ content_score = {}
    /\ technical_score = {}
    /\ maintenance_score = {}
    /\ ux_score = {}
    /\ exception = "none"
    /\ result = {}
    /\ raised = "none"

MergeIdle ==
    /\ merge_default = EmptyDict
    /\ merge_loaded = EmptyDict
    /\ merged = {}

RubricIdle ==
    /\ rubric_file = [state |-> "absent", value |-> EmptyDict]
    /\ edited_file = [state |-> "absent", value |-> EmptyDict]
    /\ instances = <<>>
    /\ global_config = 0
    /\ held = 0
    /\ held_config = EmptyDict
    /\ lookup_path = <<>>
    /\ lookup = {}
    /\ during = {}
    /\ rubric_raised = "none"
    /\ reloader = "idle"

\* no parser has been applied
ParseIdle ==
    /\ parsed_sections = {}
    /\ parsed_code_blocks = {}

\* no thread reads a document
LazyIdle ==
    /\ _sections = 0
    /\ _code_blocks = 0
    /\ heap = <<>>
    /\ readers = {}
    /\ reader_pc = <<>>
    /\ attribute = <<>>
    /\ computed_object = <<>>
    /\ accesses = <<>>
    /\ returned = {}
    /\ computed = {}

\* no document is being built or read
DocumentIdle ==
    /\ raw_content = <<>>
    /\ yaml_frontmatter = {}
    /\ markdown_body = <<>>
    /\ doc_raised = "none"
    /\ ParseIdle
    /\ LazyIdle

LibraryIdle ==
    /\ MergeIdle
    /\ RubricIdle
    /\ DocumentIdle

EntryIdle ==
    /\ entry_body = [ids |-> {}, wide |-> FALSE]
    /\ entry_config = DefaultConfig
    /\ via_document = <<>>
    /\ via_text = <<>>
    /\ example_quality = {}

FrequencyIdle ==
    /\ metadata_pair = <<>>
    /\ frequency_pair = <<>>

FetchIdle ==
    /\ remote = <<>>
    /\ cache_files = {}
    /\ network_requests = 0
    /\ downloads = <<>>

ComponentIdle ==
    /\ EntryIdle
    /\ FrequencyIdle
    /\ FetchIdle

(***************************************************************************)
(* Specification of the matcher                                            *)
(***************************************************************************)
MatchInit ==
    /\ title \in StringsUpTo(MaxTitleLen)
    /\ name \in StringsUpTo(MaxNameLen)
    /\ matched = FALSE
    /\ pc = "match"
    /\ SmoothIdle
    /\ AnalysisIdle
    /\ LibraryIdle
    /\ ComponentIdle

CallMatches ==
    /\ pc = "match"
    /\ matched' = Matches(title, name)
    /\ pc' = "matched"
    /\ UNCHANGED <<title, name, smoothVars, analysisVars, libraryVars, componentVars>>

MatchNext == CallMatches

SpecMatch == MatchInit /\ [][MatchNext]_vars

(***************************************************************************)
(* Properties of the matcher                                               *)
(***************************************************************************)
\* the words of a text: the pieces between single blanks (str.split(' '))
RECURSIVE SplitWords(_)
SplitWords(str) ==
    IF \A i \in 1..Len(str) : str[i] # " "
    THEN <<str>>
    ELSE LET k == CHOOSE i \in 1..Len(str) :
                      /\ str[i] = " "
                      /\ \A j \in 1..(i - 1) : str[j] # " "
         IN  <<SubSeq(str, 1, k - 1)>> \o SplitWords(SubSeq(str, k + 1, Len(str)))

\* a query made of one or more non-empty words separated by single blanks
IsWordSequence(str) ==
    /\ Len(str) > 0
    /\ \A k \in 1..Len(SplitWords(str)) : SplitWords(str)[k] # <<>>

\* the words ws appear in ts contiguously and in order
ContiguousIn(ws, ts) ==
    \E o \in 0..(Len(ts) - Len(ws)) : \A k \in 1..Len(ws) : ts[o + k] = ws[k]

\* the words ws with a plural "s" appended to the last one
PluralLast(ws) == [ws EXCEPT ![Len(ws)] = @ \o <<"s">>]

\* sub is a proper part of the longer word w
ProperlyInside(sub, w) ==
    /\ Len(sub) < Len(w)
    /\ \E p \in 0..(Len(w) - Len(sub)) : LiteralAt(w, sub, p)

TitleWords == SplitWords(Lower(title))
NameWords == SplitWords(Lower(name))

\* the query is one word that is no word of the title but lies properly
\* inside a longer word of the title
SubstringOnly ==
    /\ IsWordSequence(name)
    /\ Len(NameWords) = 1
    /\ \A k \in 1..Len(TitleWords) : TitleWords[k] # NameWords[1]
    /\ \E k \in 1..Len(TitleWords) : ProperlyInside(NameWords[1], TitleWords[k])

\* C1: a query that occurs in the title only as a proper part of a longer
\* title word, never as a whole word, does not match.
C1_NoSubstringFalsePositive ==
    (pc = "matched" /\ SubstringOnly) => ~matched

SmoothInit ==
    /\ value \in (0 - NegSpan)..MaxValue
    /\ value2 \in (0 - NegSpan)..MaxValue
    /\ max_value \in (0 - NegSpan)..MaxCeilingValue
    /\ max_score \in 0..MaxCeilingScore
    /\ score = 0
    /\ score2 = 0
    /\ pc = "smooth"
    /\ MatchIdle
    /\ ComponentIdle
    /\ AnalysisIdle
    /\ LibraryIdle

CallSmoothScore ==
    /\ pc = "smooth"
    /\ score' = SmoothScore(value, max_value, max_score)
    /\ pc' = "smooth2"
    /\ UNCHANGED <<value, value2, max_value, max_score, score2, matchVars, componentVars, analysisVars, libraryVars>>

CallSmoothScoreAgain ==
    /\ pc = "smooth2"
    /\ score2' = SmoothScore(value2, max_value, max_score)
    /\ pc' = "smoothed"
    /\ UNCHANGED <<value, value2, max_value, max_score, score, matchVars, componentVars, analysisVars, libraryVars>>

SmoothNext == CallSmoothScore \/ CallSmoothScoreAgain

SpecSmooth == SmoothInit /\ [][SmoothNext]_vars

\* C4: for a positive ceiling value, smooth_score is non-decreasing in its
\* first argument and its result lies between 0 and the ceiling score.
C4_MonotoneBounded ==
    (pc = "smoothed" /\ max_value > 0 /\ value <= value2) =>
        (0 <= score /\ score <= score2 /\ score2 <= max_score)

\* the first call takes the logarithmic branch, the second the saturated one
C4_Witness ==
    /\ pc = "smoothed"
    /\ 0 < value
    /\ value < max_value
    /\ max_value <= value2
    /\ 0 < score
    /\ score < score2
    /\ score2 = max_score

\* C5: smooth_score is 0 for every value <= 0 whatever the ceiling value is,
\* the ceiling score for every positive value >= the ceiling value, and the
\* ceiling score for every positive value when the ceiling value is <= 0.
C5_BoundaryPolicy ==
    pc = "smoothed" =>
        /\ value <= 0 => score = 0
        /\ (value > 0 /\ value >= max_value) => score = max_score
        /\ (value > 0 /\ max_value <= 0) => score = max_score

\* a non-positive value against a non-positive ceiling value, next to a
\* positive value against the same ceiling
C5_Witness ==
    /\ pc = "smoothed"
    /\ value <= 0
    /\ max_value <= 0
    /\ max_score > 0
    /\ score = 0
    /\ value2 > 0
    /\ score2 = max_score

(***************************************************************************)
(* Specification of SkillAnalyzer.analyze on one skill directory           *)
(***************************************************************************)
\* SkillDocument._load_metadata: None for an absent file and for a file that
\* is not JSON (json.JSONDecodeError, the one exception it catches)
_load_metadata(file) ==
    IF file.state = "valid" THEN file.data ELSE NoMetadata

\* _load_metadata on a file whose bytes are not UTF-8: reading it raises
\* UnicodeDecodeError, which is not a JSONDecodeError and leaves the method
MetadataLoadRaises(file) == file.state = "undecodable"

SkillFiles ==
    {[exists |-> FALSE, body |-> [ids |-> {}, wide |-> FALSE]]}
    \cup {[exists |-> TRUE, body |-> d] : d \in Documents}

MetadataFiles ==
    {[state |-> "absent", data |-> NoMetadata],
     [state |-> "malformed", data |-> NoMetadata],
     [state |-> "undecodable", data |-> NoMetadata]}
    \cup {[state |-> "valid", data |-> m] : m \in MetadataRecords}

Init ==
    /\ skill_md \in SkillFiles
    /\ metadata_json \in MetadataFiles
    /\ config \in Configs
    /\ doc = {}
    /\ content_score = {}
    /\ technical_score = {}
    /\ maintenance_score = {}
    /\ ux_score = {}
    /\ exception = "none"
    /\ result = {}
    /\ raised = "none"
    /\ pc = "construct"
    /\ MatchIdle
    /\ ComponentIdle
    /\ SmoothIdle
    /\ LibraryIdle

Only(S) == CHOOSE x \in S : TRUE

\* _load_content without the existence test, reading a missing file as empty
LoadContentUnchecked(file) == "ok"

\* SkillDocument._load_content: "ok" or the exception it raises
_load_content(file) == IF file.exists THEN "ok" ELSE "FileNotFoundError"

\* doc = SkillDocument(self.skill_path): _load_content raises when SKILL.md
\* is missing, then _load_metadata runs
Construct ==
    /\ pc = "construct"
    /\ IF _load_content(skill_md) # "ok"
       THEN /\ exception' = _load_content(skill_md)
            /\ pc' = "except"
            /\ UNCHANGED doc
       ELSE IF MetadataLoadRaises(metadata_json)
       THEN /\ exception' = "UnicodeDecodeError"
            /\ pc' = "except"
            /\ UNCHANGED doc
       ELSE /\ doc' = {[markdown_body |-> skill_md.body,
                        metadata |-> _load_metadata(metadata_json)]}
            /\ pc' = "content"
            /\ UNCHANGED exception
    /\ UNCHANGED <<fileVars, scoreVars, result, raised, matchVars, componentVars, smoothVars, libraryVars>>

\* content_score = self.content_scorer.score(doc, metadata)
ScoreContent ==
    /\ pc = "content"
    /\ content_score' =
          {ContentScore(Only(doc).markdown_body, config.weights.content_quality)}
    /\ pc' = "technical"
    /\ UNCHANGED <<fileVars, doc, technical_score, maintenance_score, ux_score,
                   exception, result, raised, matchVars, componentVars, smoothVars, libraryVars>>

\* technical_score = self.technical_scorer.score(doc)
ScoreTechnical ==
    /\ pc = "technical"
    /\ technical_score' =
          {TechnicalScore(Only(doc).markdown_body,
                          config.weights.technical_implementation)}
    /\ pc' = "maintenance"
    /\ UNCHANGED <<fileVars, doc, content_score, maintenance_score, ux_score,
                   exception, result, raised, matchVars, componentVars, smoothVars, libraryVars>>

\* maintenance_score = self.maintenance_scorer.score(metadata, markdown_content)
ScoreMaintenance ==
    /\ pc = "maintenance"
    /\ IF UpdateFrequencyRaises(Only(doc).metadata)
       THEN /\ exception' = "TypeError"
            /\ pc' = "except"
            /\ UNCHANGED maintenance_score
       ELSE /\ maintenance_score' =
                  {MaintenanceScore(Only(doc).metadata, Only(doc).markdown_body,
                                    config)}
            /\ pc' = "ux"
            /\ UNCHANGED exception
    /\ UNCHANGED <<fileVars, doc, content_score, technical_score, ux_score,
                   result, raised, matchVars, componentVars, smoothVars, libraryVars>>

\* ux_score = self.ux_scorer.score(doc)
ScoreUX ==
    /\ pc = "ux"
    /\ ux_score' =
          {UXScore(Only(doc).markdown_body, config.weights.user_experience,
                   config.analysis)}
    /\ pc' = "aggregate"
    /\ UNCHANGED <<fileVars, doc, content_score, technical_score,
                   maintenance_score, exception, result, raised, matchVars, componentVars,
                   smoothVars, libraryVars>>

\* total_score of analyze
TotalScore(cs, ts, ms, us) == cs.total + ts.total + ms.total + us.total

\* total, grade, recommendations and the returned record
Aggregate ==
    /\ pc = "aggregate"
    /\ LET cs == Only(content_score)
           ts == Only(technical_score)
           ms == Only(maintenance_score)
           us == Only(ux_score)
           total_score == TotalScore(cs, ts, ms, us)
       IN  result' =
              {[total_score |-> total_score,
                grade |-> _get_grade(total_score, config.grade_thresholds),
                scores |-> [content |-> cs, technical |-> ts,
                            maintenance |-> ms, ux |-> us],
                metadata |-> Only(doc).metadata,
                recommendations |-> _generate_recommendations(cs, ts, ms, us)]}
    /\ pc' = "returned"
    /\ UNCHANGED <<fileVars, doc, scoreVars, exception, raised, matchVars, componentVars,
                   smoothVars, libraryVars>>

\* an except clause that lets FileNotFoundError through
CaughtUnlessNotFound(exc) == exc \in {"TypeError", "UnicodeDecodeError"}

\* except Exception: the exceptions of the model all derive from Exception
Caught(exc) ==
    exc \in {"FileNotFoundError", "TypeError", "UnicodeDecodeError"}

\* except Exception as e: the error record
HandleException ==
    /\ pc = "except"
    /\ IF Caught(exception)
       THEN /\ result' = {[error |-> exception, total_score |-> 0,
                           grade |-> "ERROR"]}
            /\ UNCHANGED raised
       ELSE /\ raised' = exception
            /\ UNCHANGED result
    /\ exception' = "none"
    /\ pc' = "returned"
    /\ UNCHANGED <<fileVars, doc, scoreVars, matchVars, componentVars, smoothVars, libraryVars>>

Next ==
    \/ Construct
    \/ ScoreContent
    \/ ScoreTechnical
    \/ ScoreMaintenance
    \/ ScoreUX
    \/ Aggregate
    \/ HandleException

Spec == Init /\ [][Next]_vars

(***************************************************************************)
(* Properties of the scorers and of analyze                                *)
(***************************************************************************)
WithinCeilings(scores, weights) ==
    \A r \in scores : \A k \in DOMAIN r.subs : r.subs[k] <= weights[k]

\* C6: every sub-score returned by a dimension scorer is at most its own
\* configured ceiling in the weights.
C6_SubScoresWithinCeilings ==
    /\ WithinCeilings(content_score, config.weights.content_quality)
    /\ WithinCeilings(technical_score, config.weights.technical_implementation)
    /\ WithinCeilings(maintenance_score, config.weights.maintenance)
    /\ WithinCeilings(ux_score, config.weights.user_experience)

\* C7: every dimension total is at most the dimension's configured ceiling
\* (returned as max), so the aggregate total_score is at most the sum of the
\* four dimension ceilings.
C7_TotalsWithinCeilings ==
    /\ \A r \in content_score \cup technical_score \cup maintenance_score
                \cup ux_score : r.total <= r.max
    /\ \A r \in result :
          "error" \notin DOMAIN r =>
              r.total_score <= config.weights.content_quality.total
                               + config.weights.technical_implementation.total
                               + config.weights.maintenance.total
                               + config.weights.user_experience.total

\* C8: total_score is the sum of the four dimension totals and the grade is
\* the highest tier whose threshold the total meets or exceeds, D if none.
C8_TotalAndGrade ==
    \A r \in result :
        "error" \notin DOMAIN r =>
            LET t == r.total_score
                g == config.grade_thresholds
            IN  /\ t = r.scores.content.total + r.scores.technical.total
                       + r.scores.maintenance.total + r.scores.ux.total
                /\ r.grade = "S" <=> t >= g.S
                /\ r.grade = "A" <=> (g.A <= t /\ t < g.S)
                /\ r.grade = "B" <=> (g.B <= t /\ t < g.A)
                /\ r.grade = "C" <=> (g.C <= t /\ t < g.B)
                /\ r.grade = "D" <=> t < g.C

\* a total that exactly meets the threshold of tier A
C8_Witness ==
    /\ pc = "returned"
    /\ \E r \in result :
          /\ "error" \notin DOMAIN r
          /\ r.total_score = config.grade_thresholds.A
          /\ r.scores.ux.total > 0
          /\ r.grade = "A"

\* a failure of the load or of a scorer
AnalysisFails ==
    \/ ~skill_md.exists
    \/ MetadataLoadRaises(metadata_json)
    \/ UpdateFrequencyRaises(_load_metadata(metadata_json))

\* C9: analyze never raises; a failure while loading or scoring becomes a
\* record with an error string, total_score 0 and grade ERROR, and a record
\* without an error has a grade among S, A, B, C, D.
C9_FailuresBecomeRecords ==
    /\ raised = "none"
    /\ pc = "returned" =>
          /\ result # {}
          /\ \A r \in result :
                /\ AnalysisFails <=> "error" \in DOMAIN r
                /\ "error" \in DOMAIN r =>
                      (r.total_score = 0 /\ r.grade = "ERROR")
                /\ "error" \notin DOMAIN r =>
                      r.grade \in {"S", "A", "B", "C", "D"}

\* a failure of a scorer, after a successful load, returned as a record
C9_Witness ==
    /\ pc = "returned"
    /\ skill_md.exists
    /\ content_score # {}
    /\ \E r \in result : "error" \in DOMAIN r /\ r.error = "TypeError"

\* C10 as stated: a missing SKILL.md is propagated to the caller of analyze
\* as a not-found failure instead of being turned into a result record.
C10_NotFoundPropagates ==
    (pc = "returned" /\ ~skill_md.exists) =>
        (raised = "FileNotFoundError" /\ result = {})

\* C10 amended: a missing SKILL.md makes the construction of the document
\* raise the distinct FileNotFoundError, which analyze catches like any other
\* failure: the caller gets the error record of that failure, nothing is
\* raised, and no other condition yields that error.
C10_NotFoundBecomesRecord ==
    /\ (pc = "except" /\ ~skill_md.exists) => exception = "FileNotFoundError"
    /\ (pc = "returned" /\ ~skill_md.exists) =>
          /\ raised = "none"
          /\ result = {[error |-> "FileNotFoundError", total_score |-> 0,
                        grade |-> "ERROR"]}
    /\ skill_md.exists =>
          /\ exception # "FileNotFoundError"
          /\ \A r \in result :
                "error" \in DOMAIN r => r.error # "FileNotFoundError"

C10_Witness ==
    /\ pc = "returned"
    /\ ~skill_md.exists
    /\ doc = {}
    /\ \E r \in result : "error" \in DOMAIN r /\ r.error = "FileNotFoundError"

\* C11: loading the sidecar metadata never fails the document load: with an
\* absent or a malformed metadata file the document is built with metadata
\* None, no exception leaves the load and the analysis is not turned into
\* an error.
C11_MetadataNeverFails ==
    (skill_md.exists /\ metadata_json.state # "valid") =>
        /\ pc # "construct" =>
              (doc # {} /\ \A d \in doc : d.metadata = NoMetadata)
        /\ exception = "none"
        /\ \A r \in result : "error" \notin DOMAIN r

\* the part of C11 that the code keeps: an absent file and a file that is
\* not JSON give metadata None and an analysis without error
MetadataAbsentOrNotJson ==
    (skill_md.exists /\ metadata_json.state \in {"absent", "malformed"}) =>
        /\ pc # "construct" =>
              (doc # {} /\ \A d \in doc : d.metadata = NoMetadata)
        /\ exception = "none"
        /\ \A r \in result : "error" \notin DOMAIN r

(***************************************************************************)
(* Specification of ScoringConfig._merge_configs on two dicts              *)
(***************************************************************************)
MergeKeys == {"a", "b"}

Leaves == {Leaf(v) : v \in 1..MaxLeaf}

\* the dicts over MergeKeys whose values are in values
DictsOver(values) ==
    UNION {{Map(f) : f \in [S -> values]} : S \in SUBSET MergeKeys}

\* dicts nested two deep
MergeInputs == DictsOver(Leaves \cup DictsOver(Leaves))

MergeInit ==
    /\ merge_default \in MergeInputs
    /\ merge_loaded \in MergeInputs
    /\ merged = {}
    /\ pc = "merge"
    /\ MatchIdle
    /\ ComponentIdle
    /\ SmoothIdle
    /\ AnalysisIdle
    /\ RubricIdle
    /\ DocumentIdle

\* merged = self._merge_configs(default, loaded)
CallMergeConfigs ==
    /\ pc = "merge"
    /\ merged' = {_merge_configs(merge_default, merge_loaded)}
    /\ pc' = "merged"
    /\ UNCHANGED <<documentVars, merge_default, merge_loaded, matchVars, componentVars, smoothVars,
                   analysisVars, rubricVars>>

MergeNext == CallMergeConfigs

SpecMerge == MergeInit /\ [][MergeNext]_vars

\* r has the keys of d and of l; a key of l has the value of l, except that
\* dicts on both sides are combined the same way; any other key keeps the
\* value of d
RECURSIVE OverridePreserving(_, _, _)
OverridePreserving(d, l, r) ==
    /\ IsDict(r)
    /\ DOMAIN r.entries = DOMAIN d.entries \cup DOMAIN l.entries
    /\ \A key \in DOMAIN r.entries :
          IF key \notin DOMAIN l.entries
          THEN r.entries[key] = d.entries[key]
          ELSE IF key \in DOMAIN d.entries /\ IsDict(d.entries[key])
                  /\ IsDict(l.entries[key])
               THEN OverridePreserving(d.entries[key], l.entries[key],
                                       r.entries[key])
               ELSE r.entries[key] = l.entries[key]

\* C13: the merge is override-preserving at every depth: dicts on both sides
\* of a key are merged recursively, any other loaded key takes the loaded
\* value entirely, and a default key absent from loaded keeps its value.
C13_MergeOverridePreserving ==
    \A r \in merged : OverridePreserving(merge_default, merge_loaded, r)

\* merging {a: {b: 2}} onto {a: {a: 1, b: 1}, b: 1} gave
\* {a: {a: 1, b: 2}, b: 1}
C13_Witness ==
    /\ pc = "merged"
    /\ merge_default =
          Map([a |-> Map([a |-> Leaf(1), b |-> Leaf(1)]), b |-> Leaf(1)])
    /\ merge_loaded = Map([k \in {"a"} |-> Map([j \in {"b"} |-> Leaf(2)])])
    /\ merged =
          {Map([a |-> Map([a |-> Leaf(1), b |-> Leaf(2)]), b |-> Leaf(1)])}

(***************************************************************************)
(* Specification of the rubric: get_config, ScoringConfig, reload and one  *)
(* get_smooth_params call of a reader, with a thread that edits the file   *)
(* and reloads                                                             *)
(***************************************************************************)
RubricKeys == {"general", "content_quality", "extra"}

\* what a parseable rubric file may hold under each top-level key
RubricEntries ==
    [general |->
        {Leaf(5),
         Map([k \in {"default_max_value"} |-> Leaf(3)]),
         Map([default_max_value |-> Leaf(3), default_max_score |-> Leaf(4)])},
     content_quality |->
        {Leaf(1),
         Map([k \in {"clarity"} |-> Leaf(1)]),
         Map([k \in {"clarity"} |->
                Map([j \in {"use_cases"} |->
                       Map([i \in {"max_value"} |-> Leaf(9)])])]),
         Map([k \in {"clarity"} |->
                Map([j \in {"use_cases"} |-> Pair(9, 8)])])},
     extra |-> {Pair(2, 2)}]

\* the values yaml.safe_load gives for parseable files: a non-dict, and the
\* dicts over RubricKeys
ParsedRubrics ==
    {Leaf(1)} \cup
    {Map(f) : f \in UNION {
        {g \in [S -> UNION {RubricEntries[k] : k \in RubricKeys}] :
            \A k \in S : g[k] \in RubricEntries[k]} : S \in SUBSET RubricKeys}}

RubricFiles ==
    {[state |-> st, value |-> EmptyDict] :
        st \in {"absent", "empty", "unparseable"}}
    \cup {[state |-> "parsed", value |-> v] : v \in ParsedRubrics}

\* the paths a reader asks for: configured, new, through a non-dict, missing
LookupPaths ==
    {<<"content_quality", "clarity", "use_cases">>,
     <<"extra">>,
     <<"content_quality", "clarity", "use_cases", "max_value">>,
     <<"nope">>}

RubricInit ==
    /\ rubric_file \in RubricFiles
    /\ edited_file \in RubricFiles
    /\ instances = <<>>
    /\ global_config = 0
    /\ held = 0
    /\ held_config = EmptyDict
    /\ lookup_path = <<>>
    /\ lookup = {}
    /\ during = {}
    /\ rubric_raised = "none"
    /\ reloader = "edit"
    /\ pc = "get"
    /\ MatchIdle
    /\ ComponentIdle
    /\ SmoothIdle
    /\ AnalysisIdle
    /\ MergeIdle
    /\ DocumentIdle

\* the reader's config = get_config(): builds the singleton when there is
\* none
GetConfig ==
    /\ pc = "get"
    /\ IF global_config # 0
       THEN /\ held' = global_config
            /\ held_config' = instances[global_config].config
            /\ pc' = "hold"
            /\ UNCHANGED <<instances, global_config, rubric_raised>>
       ELSE IF ScoringConfig(rubric_file).outcome = "raises"
       THEN /\ rubric_raised' = ScoringConfig(rubric_file).error
            /\ pc' = "failed"
            /\ UNCHANGED <<instances, global_config, held, held_config>>
       ELSE /\ instances' = Append(instances, ScoringConfig(rubric_file).value)
            /\ global_config' = Len(instances) + 1
            /\ held' = Len(instances) + 1
            /\ held_config' = ScoringConfig(rubric_file).value.config
            /\ pc' = "hold"
            /\ UNCHANGED rubric_raised
    /\ UNCHANGED <<documentVars, rubric_file, edited_file, lookup_path, lookup, during,
                   reloader, matchVars, componentVars, smoothVars, analysisVars, mergeVars>>

\* config.get_smooth_params(*path), lines 179-203: one read of self.config,
\* the walk, and the configured pair unless _get_default_params is called
LookupStart ==
    /\ pc = "hold"
    /\ \E p \in LookupPaths :
          LET cfg == instances[held].config
              found == ConfiguredParams(cfg, p)
          IN  /\ lookup_path' = p
              /\ during' = {cfg}
              /\ IF found.outcome = "miss"
                 THEN /\ pc' = "default"
                      /\ UNCHANGED lookup
                 ELSE /\ lookup' = {found}
                      /\ pc' = "looked"
    /\ UNCHANGED <<documentVars, rubric_file, edited_file, instances, global_config, held,
                   held_config, rubric_raised, reloader, matchVars, componentVars, smoothVars,
                   analysisVars, mergeVars>>

\* return self._get_default_params(): a second read of self.config
LookupDefault ==
    /\ pc = "default"
    /\ lookup' = {_get_default_params(instances[held].config)}
    /\ pc' = "looked"
    /\ UNCHANGED <<documentVars, rubric_file, edited_file, instances, global_config, held,
                   held_config, lookup_path, during, rubric_raised, reloader,
                   matchVars, componentVars, smoothVars, analysisVars, mergeVars>>

\* the rubric file is rewritten
EditFile ==
    /\ reloader = "edit"
    /\ rubric_file' = edited_file
    /\ reloader' = "reload"
    /\ UNCHANGED <<documentVars, edited_file, instances, global_config, held, held_config,
                   lookup_path, lookup, during, rubric_raised, pc, matchVars, componentVars,
                   smoothVars, analysisVars, mergeVars>>

\* get_config().reload(): self.config = self._load_config() on the singleton
Reload ==
    /\ reloader = "reload"
    /\ global_config # 0
    /\ instances' =
          [instances EXCEPT ![global_config].config = _load_config(rubric_file),
                            ![global_config].loaded_from = rubric_file.state]
    /\ during' = IF pc = "default" /\ held = global_config
                 THEN during \cup {_load_config(rubric_file)}
                 ELSE during
    /\ reloader' = "done"
    /\ UNCHANGED <<documentVars, rubric_file, edited_file, global_config, held, held_config,
                   lookup_path, lookup, rubric_raised, pc, matchVars, componentVars,
                   smoothVars, analysisVars, mergeVars>>

\* get_config(reload=True): _global_config = ScoringConfig()
GetConfigReload ==
    /\ reloader = "reload"
    /\ IF ScoringConfig(rubric_file).outcome = "raises"
       THEN /\ rubric_raised' = ScoringConfig(rubric_file).error
            /\ UNCHANGED <<instances, global_config>>
       ELSE /\ instances' = Append(instances, ScoringConfig(rubric_file).value)
            /\ global_config' = Len(instances) + 1
            /\ UNCHANGED rubric_raised
    /\ reloader' = "done"
    /\ UNCHANGED <<documentVars, rubric_file, edited_file, held, held_config, lookup_path,
                   lookup, during, pc, matchVars, componentVars, smoothVars, analysisVars,
                   mergeVars>>

RubricNext ==
    \/ GetConfig
    \/ LookupStart
    \/ LookupDefault
    \/ EditFile
    \/ Reload
    \/ GetConfigReload

SpecRubric == RubricInit /\ [][RubricNext]_vars

(***************************************************************************)
(* Properties of the rubric                                                *)
(***************************************************************************)
\* an absent, empty or unparseable file gave the built-in rubric and the
\* scores of the built-in rubric
DefaultWhenUnreadable ==
    \A i \in DOMAIN instances :
        instances[i].loaded_from \in {"absent", "empty", "unparseable"} =>
            /\ instances[i].config = DEFAULT_CONFIG
            /\ \A key \in DOMAIN SmoothPaths : \A count \in 0..MaxValue :
                  SmoothedWith(instances[i].config, count, key)
                      = Smoothed(count, key)

\* C12: loading the rubric always produces a rubric and never raises, for
\* every file content; an absent, empty or unparseable file gives the
\* built-in default and so the same scores as no file.
C12_LoadAlwaysProducesRubric ==
    /\ rubric_raised = "none"
    /\ pc # "failed"
    /\ DefaultWhenUnreadable

\* what C14 expects of a lookup of p under the rubric cfg
ExpectedParams(cfg, p) ==
    LET at == Walk(cfg, p)
        configured ==
            /\ at.outcome = "returns"
            /\ IsDict(at.value)
            /\ {"max_value", "max_score"} \subseteq DOMAIN at.value.entries
        general ==
            IF HasKey(cfg, "general") /\ IsDict(cfg.entries["general"])
            THEN cfg.entries["general"].entries
            ELSE [k \in {} |-> Leaf(5)]
        Default(k) == IF k \in DOMAIN general THEN general[k] ELSE Leaf(5)
    IN  IF configured
        THEN [max_value |-> at.value.entries["max_value"],
              max_score |-> at.value.entries["max_score"]]
        ELSE [max_value |-> Default("default_max_value"),
              max_score |-> Default("default_max_score")]

\* C14: get_smooth_params never raises and returns the configured pair of
\* the path, or the process-wide default pair (general.default_max_value and
\* general.default_max_score, 5 and 5 when unset) when the path does not
\* lead to a dict holding max_value and max_score. Stated for a lookup during
\* which the rubric of the instance did not change.
C14_LookupNeverRaises ==
    (pc = "looked" /\ Cardinality(during) = 1) =>
        \A cfg \in during :
            lookup = {Returns(ExpectedParams(cfg, lookup_path))}

\* the instance the reader holds still has the rubric it had when obtained
HolderKeepsOldRubric ==
    held # 0 => instances[held].config = held_config

\* the lookup gave what it gives under one of the rubrics the instance had
\* while it ran
LookupUnderOneRubric ==
    pc = "looked" =>
        lookup \subseteq {get_smooth_params(cfg, lookup_path) : cfg \in during}

\* C15: a reload never mutates the shared rubric instance in place: a holder
\* of the old instance keeps seeing the old values, and a lookup that runs
\* concurrently with the reload gives the result under the old rubric or
\* under the new rubric, never a mixture.
C15_ReloadPublishesNewInstance ==
    /\ HolderKeepsOldRubric
    /\ LookupUnderOneRubric

(***************************************************************************)
(* SpecLazy: the accessors sections and code_blocks of one SkillDocument,  *)
(* read by one thread or by two.  A thread can be suspended between the    *)
(* test of a slot, the call of the parser, the store and the return.       *)
(***************************************************************************)
\* the texts of the documents read: one without headings and fences, whose
\* lists are empty, one with a header, and one with two sections and a block
LazyTexts ==
    {<<"text">>,
     <<"---", "a: 1", "---", "# T", "text">>,
     <<"# T", "'''Python", "# c", "'''", "### U", "text">>}

Attributes == {"sections", "code_blocks"}

\* self._sections or self._code_blocks
Slot(a) == IF a = "sections" THEN _sections ELSE _code_blocks

\* a test that takes an empty list for an unset slot
SlotFalsy(objects, slot) == slot = 0 \/ objects[slot] = <<>>

\* self._sections is None
SlotUnset(objects, slot) == slot = 0

\* self._parse_sections() or self._parse_code_blocks()
Computation(body, a) ==
    IF a = "sections" THEN _parse_sections(body) ELSE _parse_code_blocks(body)

\* the document after SkillDocument(skill_dir), and the threads that hold it
LazyInit ==
    /\ raw_content \in LazyTexts
    /\ yaml_frontmatter = _parse_frontmatter(raw_content).value.yaml_frontmatter
    /\ markdown_body = _parse_frontmatter(raw_content).value.markdown_body
    /\ doc_raised = "none"
    /\ _sections = 0
    /\ _code_blocks = 0
    /\ heap = <<>>
    /\ readers \in {{1}, {1, 2}}
    /\ reader_pc = [r \in readers |-> "idle"]
    /\ attribute = [r \in readers |-> "sections"]
    /\ computed_object = [r \in readers |-> 0]
    /\ accesses = [r \in readers |-> 0]
    /\ returned = {}
    /\ computed = {}
    /\ ParseIdle
    /\ pc = "read"
    /\ MatchIdle
    /\ ComponentIdle
    /\ SmoothIdle
    /\ AnalysisIdle
    /\ MergeIdle
    /\ RubricIdle

\* reader r reads property a: if self._sections is None
TestSlot(r, a) ==
    /\ pc = "read"
    /\ reader_pc[r] = "idle"
    /\ accesses[r] < MaxAccesses
    /\ attribute' = [attribute EXCEPT ![r] = a]
    /\ reader_pc' = [reader_pc EXCEPT
                        ![r] = IF SlotUnset(heap, Slot(a)) THEN "compute"
                               ELSE "return"]
    /\ UNCHANGED <<docVars, parseVars, _sections, _code_blocks, heap, readers,
                   computed_object, accesses, returned, computed, matchVars, componentVars,
                   smoothVars, analysisVars, mergeVars, rubricVars, pc>>

\* the right-hand side self._parse_sections(): a new list
Compute(r) ==
    /\ pc = "read"
    /\ reader_pc[r] = "compute"
    /\ heap' = Append(heap, Computation(markdown_body, attribute[r]))
    /\ computed_object' = [computed_object EXCEPT ![r] = Len(heap) + 1]
    /\ computed' = computed \cup
           {[reader |-> r, attr |-> attribute[r], object |-> Len(heap) + 1]}
    /\ reader_pc' = [reader_pc EXCEPT ![r] = "store"]
    /\ UNCHANGED <<docVars, parseVars, _sections, _code_blocks, readers,
                   attribute, accesses, returned, matchVars, componentVars, smoothVars,
                   analysisVars, mergeVars, rubricVars, pc>>

\* self._sections = ...
Store(r) ==
    /\ pc = "read"
    /\ reader_pc[r] = "store"
    /\ IF attribute[r] = "sections"
       THEN _sections' = computed_object[r] /\ UNCHANGED _code_blocks
       ELSE _code_blocks' = computed_object[r] /\ UNCHANGED _sections
    /\ reader_pc' = [reader_pc EXCEPT ![r] = "return"]
    /\ UNCHANGED <<docVars, parseVars, heap, readers, attribute,
                   computed_object, accesses, returned, computed, matchVars, componentVars,
                   smoothVars, analysisVars, mergeVars, rubricVars, pc>>

\* return self._sections
Return(r) ==
    /\ pc = "read"
    /\ reader_pc[r] = "return"
    /\ returned' = returned \cup
           {[reader |-> r, access |-> accesses[r] + 1, attr |-> attribute[r],
             object |-> Slot(attribute[r])]}
    /\ accesses' = [accesses EXCEPT ![r] = @ + 1]
    /\ reader_pc' = [reader_pc EXCEPT ![r] = "idle"]
    /\ UNCHANGED <<docVars, parseVars, _sections, _code_blocks, heap, readers,
                   attribute, computed_object, computed, matchVars, componentVars,
                   smoothVars, analysisVars, mergeVars, rubricVars, pc>>

LazyNext ==
    \E r \in readers :
        \/ \E a \in Attributes : TestSlot(r, a)
        \/ Compute(r)
        \/ Store(r)
        \/ Return(r)

SpecLazy == LazyInit /\ [][LazyNext]_vars

\* the parser calls made for property a, and the accesses of it that returned
ComputedFor(a) == {c \in computed : c.attr = a}

ReturnedFor(a) == {x \in returned : x.attr = a}

\* C16: the two lists are lazy and memoized.  After construction both slots
\* are unset; the first access of a property computes its list and stores
\* it; every later access of a sequence of accesses to either property
\* returns that same object and the parser is not called again, also when
\* the list is empty; and a populated slot is never unset again.
C16_LazyAndMemoized ==
    /\ [](/\ (returned = {} /\ computed = {}) => (_sections = 0 /\ _code_blocks = 0)
          /\ readers = {1} =>
                \A a \in Attributes :
                    /\ Cardinality(ComputedFor(a)) <= 1
                    /\ ReturnedFor(a) # {} =>
                          /\ ComputedFor(a) # {}
                          /\ Slot(a) # 0
                          /\ heap[Slot(a)] = Computation(markdown_body, a)
                          /\ \A x \in ReturnedFor(a) : x.object = Slot(a)
                          /\ \A c \in ComputedFor(a) : c.object = Slot(a))
    /\ [][\A a \in Attributes : Slot(a) # 0 => Slot(a)' # 0]_vars

\* one reader has read both properties of a document whose lists are empty,
\* one of them again after the other
C16_Witness ==
    /\ readers = {1}
    /\ accesses[1] = MaxAccesses
    /\ \A a \in Attributes : ReturnedFor(a) # {} /\ heap[Slot(a)] = <<>>
    /\ \E x, y \in returned : x.attr = y.attr /\ x.access + 2 <= y.access

\* the headings of a body, by line index from 0
HeadingIndexes(body) == {i \in 0..(Len(body) - 1) : IsHeading(body[i + 1])}

\* the section of the heading at index h: it runs up to the line before the
\* next heading, or to the last line
SectionOfHeading(body, h) ==
    LET later == {k \in HeadingIndexes(body) : k > h}
        last == IF later = {} THEN Len(body) - 1 ELSE Smallest(later) - 1
        marks == HashCount(body[h + 1])
    IN  [title |-> Strip(SubSeq(body[h + 1], marks + 1, Len(body[h + 1]))),
         level |-> marks,
         content |-> JoinLines(SubSeq(body, h + 2, last + 1)),
         start_line |-> h,
         end_line |-> last]

\* the complete list of sections of a body: one for each heading, in order
SectionsByHeadings(body) ==
    LET H == HeadingIndexes(body)
    IN  [k \in 1..Cardinality(H) |->
            SectionOfHeading(body,
                CHOOSE h \in H : Cardinality({x \in H : x < h}) = k - 1)]

\* the complete list of a property
CompleteList(body, a) ==
    IF a = "sections" THEN SectionsByHeadings(body)
    ELSE _parse_code_blocks(body)

\* C17: when two readers both find a slot unset before either stores, each
\* computes a list of its own, both lists are complete and equal in content,
\* each reader is returned one of the two, and once both have stored the slot
\* holds one of the two; no access returns an unset slot or a partial list.
C17_ComputeTwiceKeepEither ==
    /\ \A x \in returned :
          /\ x.object # 0
          /\ heap[x.object] = CompleteList(markdown_body, x.attr)
    /\ \A a \in Attributes : \A c1, c2 \in ComputedFor(a) :
          c1.reader # c2.reader =>
              /\ c1.object # c2.object
              /\ heap[c1.object] = heap[c2.object]
              /\ heap[c1.object] = CompleteList(markdown_body, a)
              /\ \A x \in ReturnedFor(a) : x.object \in {c1.object, c2.object}
              /\ (\A r \in readers :
                     ~(attribute[r] = a /\ reader_pc[r] \in {"compute", "store"}))
                 => Slot(a) \in {c1.object, c2.object}

\* both readers computed the sections of a document that has some, and each
\* was returned the list it had computed itself
C17_Witness ==
    /\ \E c1, c2 \in ComputedFor("sections") : c1.reader # c2.reader
    /\ \E x, y \in ReturnedFor("sections") :
          /\ x.reader # y.reader
          /\ x.object # y.object
          /\ heap[x.object] # <<>>
    /\ \A r \in readers : reader_pc[r] = "idle"

(***************************************************************************)
(* SpecParse: SkillDocument built from a text, then its two parsers applied *)
(* to the body.  The texts are all sequences of up to MaxLines lines.      *)
(***************************************************************************)
\* the lines texts are made of: header fences and header entries, one that
\* cannot be scanned and one whose date cannot be built, headings of two
\* levels, and code fences with and without a tag
TextLines ==
    {"---", "a: 1", "a: [", "d: 2023-02-30", "", "# T", "### U",
     "'''Python", "'''python", "'''"}

Texts == UNION {[1..n -> TextLines] : n \in 1..MaxLines}

ParseInit ==
    /\ raw_content \in Texts
    /\ yaml_frontmatter = {}
    /\ markdown_body = <<>>
    /\ doc_raised = "none"
    /\ ParseIdle
    /\ LazyIdle
    /\ pc = "frontmatter"
    /\ MatchIdle
    /\ ComponentIdle
    /\ SmoothIdle
    /\ AnalysisIdle
    /\ MergeIdle
    /\ RubricIdle

\* self.yaml_frontmatter, self.markdown_body = self._parse_frontmatter()
ParseFrontmatter ==
    /\ pc = "frontmatter"
    /\ LET parsed == _parse_frontmatter(raw_content)
       IN  IF parsed.outcome = "returns"
           THEN /\ yaml_frontmatter' = parsed.value.yaml_frontmatter
                /\ markdown_body' = parsed.value.markdown_body
                /\ pc' = "document"
                /\ UNCHANGED doc_raised
           ELSE /\ doc_raised' = parsed.error
                /\ pc' = "failed"
                /\ UNCHANGED <<yaml_frontmatter, markdown_body>>
    /\ UNCHANGED <<raw_content, parseVars, lazyVars, matchVars, componentVars, smoothVars,
                   analysisVars, mergeVars, rubricVars>>

\* self._parse_sections()
ParseSections ==
    /\ pc = "document"
    /\ parsed_sections = {}
    /\ parsed_sections' = {_parse_sections(markdown_body)}
    /\ UNCHANGED <<docVars, parsed_code_blocks, lazyVars, matchVars, componentVars,
                   smoothVars, analysisVars, mergeVars, rubricVars, pc>>

\* self._parse_code_blocks()
ParseCodeBlocks ==
    /\ pc = "document"
    /\ parsed_code_blocks = {}
    /\ parsed_code_blocks' = {_parse_code_blocks(markdown_body)}
    /\ UNCHANGED <<docVars, parsed_sections, lazyVars, matchVars, componentVars,
                   smoothVars, analysisVars, mergeVars, rubricVars, pc>>

ParseNext == ParseFrontmatter \/ ParseSections \/ ParseCodeBlocks

SpecParse == ParseInit /\ [][ParseNext]_vars

\* the text begins with a fence line, and after a block of at least one
\* line has a closing fence line
WellFenced(raw) ==
    /\ IsFenceLine(raw[1])
    /\ \E c \in 3..(Len(raw) - 1) : IsFenceLine(raw[c])

\* the exceptions of the parser for which the block between the fences does
\* not parse; none when there is no such block or it parses
BlockErrors(raw) ==
    IF FrontmatterMatch(raw).matched
          /\ safe_load(FrontmatterMatch(raw).group1).outcome = "raises"
    THEN {safe_load(FrontmatterMatch(raw).group1).error}
    ELSE {}

\* the body is the text behind a closing fence line of a well-fenced text
BodyFollowsHeader(raw, body) ==
    /\ WellFenced(raw)
    /\ \E c \in 3..(Len(raw) - 1) : \E b \in (c + 1)..Len(raw) :
          /\ IsFenceLine(raw[c])
          /\ AllBlank(raw, c + 1, b - 1)
          /\ body = SubSeq(raw, b, Len(raw))

\* C18: header parsing fails open.  When the text is not well fenced, or
\* the block between the fences does not parse, the document is built with
\* header None and the whole text as its body; the body differs from the
\* text only when a header was found, and is then the text behind the
\* closing fence.
C18_HeaderFailsOpen ==
    pc # "frontmatter" =>
        /\ (~WellFenced(raw_content) \/ BlockErrors(raw_content) # {}) =>
              /\ doc_raised = "none"
              /\ yaml_frontmatter = {}
              /\ markdown_body = raw_content
        /\ (doc_raised = "none" /\ markdown_body # raw_content) =>
              /\ BlockErrors(raw_content) = {}
              /\ BodyFollowsHeader(raw_content, markdown_body)

\* the part of C18 that the code keeps: the same for every text whose block
\* does not fail with an exception other than YAMLError
FailsOpenOnYamlError ==
    (pc # "frontmatter" /\ BlockErrors(raw_content) \subseteq {"YAMLError"}) =>
        /\ doc_raised = "none"
        /\ (~WellFenced(raw_content) \/ BlockErrors(raw_content) # {}) =>
              (yaml_frontmatter = {} /\ markdown_body = raw_content)
        /\ markdown_body # raw_content =>
              /\ BlockErrors(raw_content) = {}
              /\ BodyFollowsHeader(raw_content, markdown_body)

\* the sections of list S whose span, heading line to last content line,
\* holds the line of index i
Owners(S, i) == {k \in 1..Len(S) : S[k].start_line <= i /\ i <= S[k].end_line}

\* C19: the sections partition the body.  A line before the first heading
\* is in no section; every other line is in exactly one, as its heading or
\* as a line of its content.  A section begins at a heading line, holds the
\* lines up to the next heading as its content, and the next section begins
\* where it ends; every heading begins a section, whatever its level.
C19_SectionsPartitionBody ==
    \A S \in parsed_sections :
        LET body == markdown_body
        IN  /\ \A i \in 0..(Len(body) - 1) :
                  IF \E h \in 0..i : IsHeading(body[h + 1])
                  THEN Cardinality(Owners(S, i)) = 1
                  ELSE Owners(S, i) = {}
            /\ \A k \in 1..Len(S) :
                  /\ IsHeading(body[S[k].start_line + 1])
                  /\ S[k].level = HashCount(body[S[k].start_line + 1])
                  /\ S[k].end_line <= Len(body) - 1
                  /\ \A i \in (S[k].start_line + 1)..S[k].end_line :
                        ~IsHeading(body[i + 1])
                  /\ S[k].content =
                        JoinLines(SubSeq(body, S[k].start_line + 2,
                                         S[k].end_line + 1))
                  /\ k < Len(S) => S[k + 1].start_line = S[k].end_line + 1
            /\ \A h \in HeadingIndexes(body) :
                  \E k \in 1..Len(S) : S[k].start_line = h

\* a body with a line before its first heading and two sections, the first
\* with content, the second two levels deeper
C19_Witness ==
    \E S \in parsed_sections :
        /\ Len(S) = 2
        /\ S[1].start_line > 0
        /\ S[1].content # <<"">>
        /\ S[2].level > S[1].level + 1

\* the lines of a body that begin with a code fence, and the k-th of them.
\* In the texts of SpecParse a fence stands at the beginning of its line, so
\* the fences of a body open and close blocks in turn
FenceLines(body) == {i \in 1..Len(body) : TicksAt(body[i], 1)}

NthFence(body, k) ==
    CHOOSE f \in FenceLines(body) :
        Cardinality({x \in FenceLines(body) : x < f}) = k - 1

\* what is written behind the fence that opens the k-th block
TagOfBlock(body, k) ==
    Strip(SubSeq(body[NthFence(body, 2 * k - 1)], 4,
                 Len(body[NthFence(body, 2 * k - 1)])))

\* C20 as stated: the language of every block is the tag of its opening
\* fence in lower case, and unknown when the fence has no tag.
C20_LanguageIsLowercasedTag ==
    \A B \in parsed_code_blocks :
        /\ Len(B) = Cardinality(FenceLines(markdown_body)) \div 2
        /\ \A k \in 1..Len(B) :
              B[k].language =
                  IF TagOfBlock(markdown_body, k) = "" THEN "unknown"
                  ELSE LowerLine(TagOfBlock(markdown_body, k))

\* C20 amended: the language of every block is the tag of its opening fence
\* as it is written, letter case kept, and unknown when the fence has no
\* tag; the properties derived from the language are those of the tag in
\* lower case.
C20_LanguageIsTagAsWritten ==
    \A B \in parsed_code_blocks :
        /\ Len(B) = Cardinality(FenceLines(markdown_body)) \div 2
        /\ \A k \in 1..Len(B) :
              /\ B[k].language =
                    IF TagOfBlock(markdown_body, k) = "" THEN "unknown"
                    ELSE TagOfBlock(markdown_body, k)
              /\ B[k].has_comments =
                    _detect_comments(B[k].content, LowerLine(B[k].language))
              /\ B[k].is_complete =
                    _detect_completeness(B[k].content, LowerLine(B[k].language))
              /\ B[k].has_error_handling =
                    _detect_error_handling(B[k].content,
                                           LowerLine(B[k].language))

\* a block opened by a fence tagged Python, with a line of code in it
C20_Witness ==
    \E B \in parsed_code_blocks : \E k \in 1..Len(B) :
        /\ B[k].language = "Python"
        /\ TagOfBlock(markdown_body, k) = "Python"
        /\ Len(B[k].content) > 1

(***************************************************************************)
(* Specification of the scorers' two entry points: each of ContentScorer,  *)
(* TechnicalScorer and UXScorer is called once with the SkillDocument and  *)
(* once with its markdown_body; _score_example_quality is called on the    *)
(* document alone                                                          *)
(***************************************************************************)
Scorers == {"content", "technical", "ux"}

\* scorer.score(doc)
ScoreOfDocument(scorer, d, cfg) ==
    CASE scorer = "content" -> ContentScore(d, cfg.weights.content_quality)
      [] scorer = "technical" ->
            TechnicalScore(d, cfg.weights.technical_implementation)
      [] scorer = "ux" -> UXScore(d, cfg.weights.user_experience, cfg.analysis)

\* scorer.score(doc.markdown_body)
ScoreOfText(scorer, d, cfg) ==
    CASE scorer = "content" -> ContentScoreOfText(d, cfg.weights.content_quality)
      [] scorer = "technical" ->
            TechnicalScoreOfText(d, cfg.weights.technical_implementation)
      [] scorer = "ux" ->
            UXScoreOfText(d, cfg.weights.user_experience, cfg.analysis)

EntryInit ==
    /\ entry_body \in Documents
    /\ entry_config \in Configs
    /\ via_document = [scorer \in Scorers |-> {}]
    /\ via_text = [scorer \in Scorers |-> {}]
    /\ example_quality = {}
    /\ pc = "entry"
    /\ MatchIdle
    /\ SmoothIdle
    /\ AnalysisIdle
    /\ LibraryIdle
    /\ FrequencyIdle
    /\ FetchIdle

ScoreViaDocument(scorer) ==
    /\ pc = "entry"
    /\ via_document[scorer] = {}
    /\ via_document' =
          [via_document EXCEPT
              ![scorer] = {ScoreOfDocument(scorer, entry_body, entry_config)}]
    /\ UNCHANGED <<entry_body, entry_config, via_text, example_quality, pc,
                   matchVars, smoothVars, analysisVars, libraryVars,
                   frequencyVars, fetchVars>>

\* the comparison calls a scorer with the document first
ScoreViaText(scorer) ==
    /\ pc = "entry"
    /\ via_document[scorer] # {}
    /\ via_text[scorer] = {}
    /\ via_text' =
          [via_text EXCEPT
              ![scorer] = {ScoreOfText(scorer, entry_body, entry_config)}]
    /\ UNCHANGED <<entry_body, entry_config, via_document, example_quality, pc,
                   matchVars, smoothVars, analysisVars, libraryVars,
                   frequencyVars, fetchVars>>

\* scorer._score_example_quality(doc)
CallExampleQuality ==
    /\ pc = "entry"
    /\ example_quality = {}
    /\ example_quality' = {_score_example_quality(entry_body)}
    /\ UNCHANGED <<entry_body, entry_config, via_document, via_text, pc,
                   matchVars, smoothVars, analysisVars, libraryVars,
                   frequencyVars, fetchVars>>

EntryNext ==
    \/ \E scorer \in Scorers : ScoreViaDocument(scorer)
    \/ \E scorer \in Scorers : ScoreViaText(scorer)
    \/ CallExampleQuality

SpecEntry == EntryInit /\ [][EntryNext]_vars

(***************************************************************************)
(* Properties of the entry points                                          *)
(***************************************************************************)
\* C21: for every body and rubric, each scorer called with the raw body text
\* returns the same sub-scores, total and details as when it is called with
\* the SkillDocument of that body
C21_TextEntryAgreesWithDocumentEntry ==
    \A scorer \in Scorers :
        (via_document[scorer] # {} /\ via_text[scorer] # {})
            => via_text[scorer] = via_document[scorer]

(***************************************************************************)
(* Specification of MaintenanceScorer._score_update_frequency, called on   *)
(* two metadata records                                                    *)
(***************************************************************************)
\* ages in days on both sides of every step of the score
FrequencyAges == {-3, 0, 89, 90, 179, 180, 364, 365, 401, 1000}

\* the instant age days (and a moment) before now, in seconds
TimestampOf(age) == Now - ((age * 432 + 4) \div 5)

\* the values of updatedAt: each instant written in seconds and in
\* milliseconds, and the two values around the threshold
Timestamps ==
    {TimestampOf(age) : age \in FrequencyAges}
    \cup {TimestampOf(age) * 1000 : age \in FrequencyAges}
    \cup {MillisThreshold, MillisThreshold + 1}

FrequencyInputs ==
    {[MetadataOf(0, stars) EXCEPT !.updatedAt = u] :
        u \in Timestamps, stars \in {0, 50000}}
    \cup {NoMetadata,
          [MetadataOf(5, 500) EXCEPT !.updatedAt_is_number = FALSE],
          [MetadataOf(5, 50) EXCEPT !.has_updatedAt = FALSE]}

FrequencyInit ==
    /\ metadata_pair \in FrequencyInputs \X FrequencyInputs
    /\ frequency_pair = <<{}, {}>>
    /\ pc = "frequency"
    /\ MatchIdle
    /\ SmoothIdle
    /\ AnalysisIdle
    /\ LibraryIdle
    /\ EntryIdle
    /\ FetchIdle

\* self._score_update_frequency(metadata) under the default analysis
\* settings: the score, or the TypeError of comparing None with a number
CallUpdateFrequency(i) ==
    /\ pc = "frequency"
    /\ frequency_pair[i] = {}
    /\ frequency_pair' =
          [frequency_pair EXCEPT
              ![i] = {IF UpdateFrequencyRaises(metadata_pair[i])
                      THEN Raises("TypeError")
                      ELSE Returns(_score_update_frequency(
                                      metadata_pair[i], DefaultConfig.analysis))}]
    /\ UNCHANGED <<metadata_pair, pc, matchVars, smoothVars, analysisVars,
                   libraryVars, entryVars, fetchVars>>

FrequencyNext == \E i \in 1..2 : CallUpdateFrequency(i)

SpecFrequency == FrequencyInit /\ [][FrequencyNext]_vars

(***************************************************************************)
(* Properties of the update-frequency score                                *)
(***************************************************************************)
\* updatedAt is there and a number: an age can be computed
HasAge(metadata) ==
    metadata.exists /\ metadata.has_updatedAt /\ metadata.updatedAt_is_number

AgeOf(metadata) == _calculate_days_since_update(metadata).days

\* the whole days between the instant ts and now
DaysSince(ts) == ((Now - ts) * 5) \div 432

Called(i) == frequency_pair[i] # {}

ScoreOfCall(i) == Only(frequency_pair[i]).value

\* C22: the update-frequency score is a non-increasing step function of the
\* age in days of updatedAt (3 under 90 days, 2 under 180, 1 under 365, 0
\* from 365 on); it is 0 for every timestamp more than 400 days in the past
\* whatever the other fields hold, and 0 without metadata or without
\* updatedAt
C22_UpdateFrequencySteps ==
    /\ \A i \in 1..2 :
          Called(i) =>
             LET metadata == metadata_pair[i]
                 age == AgeOf(metadata)
             IN  /\ (~metadata.exists \/ ~metadata.has_updatedAt)
                       => frequency_pair[i] = {Returns(0)}
                 /\ HasAge(metadata) =>
                       /\ frequency_pair[i] \in {{Returns(s)} : s \in 0..3}
                       /\ ScoreOfCall(i) = 3 <=> age < 90
                       /\ ScoreOfCall(i) = 2 <=> (90 <= age /\ age < 180)
                       /\ ScoreOfCall(i) = 1 <=> (180 <= age /\ age < 365)
                       /\ ScoreOfCall(i) = 0 <=> 365 <= age
                       /\ age > 400 => ScoreOfCall(i) = 0
    /\ (Called(1) /\ Called(2) /\ HasAge(metadata_pair[1])
          /\ HasAge(metadata_pair[2])
          /\ AgeOf(metadata_pair[1]) <= AgeOf(metadata_pair[2]))
          => ScoreOfCall(1) >= ScoreOfCall(2)

\* a fresh record and one 401 days old with 50000 stars, both scored
C22_Witness ==
    /\ frequency_pair = <<{Returns(3)}, {Returns(0)}>>
    /\ AgeOf(metadata_pair[2]) = 401
    /\ metadata_pair[2].stars = 50000
    /\ metadata_pair[2].updatedAt <= MillisThreshold

\* the second record is the first with its instant written in milliseconds
SameInstantInMillis ==
    /\ HasAge(metadata_pair[1])
    /\ metadata_pair[1].updatedAt <= MillisThreshold
    /\ MillisThreshold \div 1000 < metadata_pair[1].updatedAt
    /\ HasAge(metadata_pair[2])
    /\ metadata_pair[2].updatedAt % 1000 = 0
    /\ metadata_pair[2].updatedAt \div 1000 = metadata_pair[1].updatedAt
    /\ metadata_pair[2] =
          [metadata_pair[1] EXCEPT !.updatedAt = metadata_pair[2].updatedAt]

\* C25: an updatedAt above the threshold 1e11 is read as milliseconds and
\* divided by 1000, one at or below it is read as seconds; so an instant t
\* with t <= 1e11 < 1000*t gives the same days_since_update and the same
\* update-frequency score written as t and as 1000*t
C25_MillisecondsNormalised ==
    /\ \A i \in 1..2 :
          (Called(i) /\ HasAge(metadata_pair[i])) =>
             LET updatedAt == metadata_pair[i].updatedAt
             IN  /\ updatedAt > MillisThreshold
                       => AgeOf(metadata_pair[i]) = DaysSince(updatedAt \div 1000)
                 /\ updatedAt <= MillisThreshold
                       => AgeOf(metadata_pair[i]) = DaysSince(updatedAt)
    /\ SameInstantInMillis =>
          /\ _calculate_days_since_update(metadata_pair[1])
                = _calculate_days_since_update(metadata_pair[2])
          /\ (Called(1) /\ Called(2)) => frequency_pair[1] = frequency_pair[2]

\* an instant 401 days back, scored in seconds and in milliseconds
C25_Witness ==
    /\ SameInstantInMillis
    /\ AgeOf(metadata_pair[1]) = 401
    /\ frequency_pair = <<{Returns(0)}, {Returns(0)}>>

(***************************************************************************)
(* Properties of the recommendations                                       *)
(***************************************************************************)
\* the criteria in the order of the dimensions: content, technical,
\* maintenance, ux
RecommendationOrder ==
    <<"content: add When to Use", "content: more use cases",
      "content: more code examples", "content: add best practices",
      "technical: add security", "technical: add patterns",
      "technical: add error handling",
      "maintenance: outdated", "maintenance: add version info",
      "ux: add quick start", "ux: more sections">>

RankOf(text) ==
    CHOOSE k \in 1..Len(RecommendationOrder) : RecommendationOrder[k] = text

\* the criteria a returned record shows as unmet
Unmet(record) ==
    LET content == record.scores.content.details
        technical == record.scores.technical.details
        maintenance == record.scores.maintenance.details
        ux == record.scores.ux.details
    IN  {text \in {RecommendationOrder[k] : k \in 1..Len(RecommendationOrder)} :
            \/ text = "content: add When to Use" /\ ~content.has_when_to_use
            \/ text = "content: more use cases" /\ content.use_cases_count < 3
            \/ text = "content: more code examples"
                  /\ content.code_blocks_count < 3
            \/ text = "content: add best practices"
                  /\ ~content.has_best_practices
            \/ text = "technical: add security"
                  /\ ~technical.has_security_keywords
            \/ text = "technical: add patterns"
                  /\ technical.design_patterns_found = {}
            \/ text = "technical: add error handling"
                  /\ ~technical.has_error_handling
            \/ text = "maintenance: outdated"
                  /\ ~maintenance.days_since_update.none
                  /\ maintenance.days_since_update.days > 180
            \/ text = "maintenance: add version info"
                  /\ ~maintenance.has_version_info
            \/ text = "ux: add quick start" /\ ~ux.has_quick_start
            \/ text = "ux: more sections" /\ ux.sections_count < 4}

Scored(record) == "recommendations" \in DOMAIN record

\* C23: the recommendations of a scored record come in the order content,
\* technical, maintenance, ux and in the order of the criteria inside a
\* dimension; each unmet criterion gives exactly one string, a met one none,
\* and the list is not cut short
C23_RecommendationsInDimensionOrder ==
    \A record \in result :
        Scored(record) =>
            LET recs == record.recommendations
            IN  /\ \A i \in 1..Len(recs) : \A j \in 1..Len(recs) :
                      i < j => RankOf(recs[i]) < RankOf(recs[j])
                /\ {recs[i] : i \in 1..Len(recs)} = Unmet(record)
                /\ Len(recs) = Cardinality(Unmet(record))

\* a record in which all eleven criteria are unmet
C23_Witness ==
    \E record \in result :
        /\ Scored(record)
        /\ record.recommendations = RecommendationOrder

(***************************************************************************)
(* Properties of a body without headings and code fences                   *)
(***************************************************************************)
Headless(d) == sections(d) = {} /\ code_blocks(d) = {}

Points(cond, points) == IF cond THEN points ELSE 0

\* C24: for a body with no heading and no code fence, every criterion that
\* asks for a section or counts sections, fragments or use cases gives 0 in
\* all four dimensions: each sub-score is what the keywords of the text
\* alone give, and the counts in the details are 0
C24_HeadlessBodyEarnsNoSectionPoints ==
    \A record \in result :
        (Scored(record) /\ Headless(Only(doc).markdown_body)) =>
            LET d == Only(doc).markdown_body
                w == config.weights
                content == record.scores.content
                technical == record.scores.technical
                maintenance == record.scores.maintenance
                ux == record.scores.ux
                pattern_count == Cardinality(_detect_patterns(d))
                error_count == Hits(d, "error_hits")
            IN  /\ ~content.details.has_when_to_use
                /\ content.details.use_cases_count = 0
                /\ content.details.code_blocks_count = 0
                /\ content.details.sections_count = 0
                /\ technical.details.code_blocks_count = 0
                /\ ux.details.use_cases_count = 0
                /\ ux.details.sections_count = 0
                /\ content.subs.clarity =
                      Min(Points(AnySection(d, "when_to_use_kw"), 3)
                          + Points(AnySection(d, "action_verbs"), 3),
                          w.content_quality.clarity)
                /\ content.subs.technical_depth =
                      Min(Points(Hits(d, "best_practice_hits") > 0,
                                 Smoothed(Hits(d, "best_practice_hits"),
                                          "best_practices"))
                          + Points(_detect_patterns(d) # {}, 2)
                          + Points(AnySection(d, "io_example"), 3),
                          w.content_quality.technical_depth)
                /\ content.subs.documentation =
                      Min(Points(Hits(d, "example_hits") > 0,
                                 Smoothed(Hits(d, "example_hits"), "examples"))
                          + Points(AnySection(d, "pitfall_kw"), 2),
                          w.content_quality.documentation)
                /\ content.subs.actionability =
                      Min(Points(AnySection(d, "step_by_step"), 3),
                          w.content_quality.actionability)
                /\ technical.subs.code_quality =
                      Min(Points(AnySection(d, "security_kw"), 3),
                          w.technical_implementation.code_quality)
                /\ technical.subs.pattern_design =
                      Min(Points(pattern_count >= 3, 6)
                          + Points(pattern_count = 2, 4)
                          + Points(pattern_count = 1, 2)
                          + Points(AnySection(d, "architecture_kw"), 2),
                          w.technical_implementation.pattern_design)
                /\ technical.subs.error_handling =
                      Min(Points(error_count >= 5, 3)
                          + Points(2 <= error_count /\ error_count < 5, 2)
                          + Points(error_count = 1, 1),
                          w.technical_implementation.error_handling)
                /\ maintenance.subs.compatibility =
                      Min(Points(AnySection(d, "version_kw"), 1)
                          + Points(AnySection(d, "dependency_kw"), 1),
                          w.maintenance.compatibility)
                /\ ux.subs.ease_of_use =
                      Min(Points(AnySection(d, "quick_start_kw"), 2),
                          w.user_experience.ease_of_use)
                /\ ux.subs.readability =
                      Min(Points(avg_line_length(d) = 60, 3)
                          + Points(avg_line_length(d) = 30, 1),
                          w.user_experience.readability)
                /\ d.ids = {} =>
                      /\ content.total = 0
                      /\ technical.total = 0
                      /\ ux.total = 0

\* a scored body of text that names every keyword under no heading
C24_Witness ==
    \E record \in result :
        /\ Scored(record)
        /\ Only(doc).markdown_body = [ids |-> {"prose"}, wide |-> TRUE]
        /\ record.scores.content.subs.clarity = 6
        /\ record.scores.technical.subs.pattern_design >= 8

(***************************************************************************)
(* Properties of the example quality                                       *)
(***************************************************************************)
GoodLength(d) ==
    {ref \in code_blocks(d) :
        10 <= Block(ref).line_count /\ Block(ref).line_count <= 50}

\* C26: _score_example_quality returns the sum of its three components: 2
\* if a fragment is complete, 1 if one has comments, 2 if two or more have
\* 10 to 50 lines (1 if exactly one has); 0 without fragments, and 5 when a
\* complete, commented fragment and two of good length are there
C26_ExampleQualityIsSumOfComponents ==
    \A quality \in example_quality :
        LET d == entry_body
            completeness ==
                Points(\E ref \in code_blocks(d) : Block(ref).is_complete, 2)
            comments ==
                Points(\E ref \in code_blocks(d) : Block(ref).has_comments, 1)
            length ==
                Points(Cardinality(GoodLength(d)) >= 2, 2)
                + Points(Cardinality(GoodLength(d)) = 1, 1)
        IN  /\ quality = completeness + comments + length
            /\ code_blocks(d) = {} => quality = 0
            /\ (completeness = 2 /\ comments = 1 /\ length = 2) => quality = 5

(***************************************************************************)
(* Specification of GitHubSkillFetcher.download_skill (github_fetcher.py): *)
(* one fetcher, a few calls, the remote files fixed during the run         *)
(***************************************************************************)
\* two addresses with the same last path component, in different repositories
Urls ==
    {[repo |-> "user/repo", path |-> "skill"],
     [repo |-> "other/repo", path |-> "skill"]}

\* parse_github_url(url)['skill_name']: the last component of the path
skill_name(url) == url.path

\* get_raw_urls: the raw addresses of the two files of a skill
get_raw_urls(url) ==
    [skill_url |-> <<url.repo, url.path, "SKILL.md">>,
     metadata_url |-> <<url.repo, url.path, "metadata.json">>,
     skill_name |-> skill_name(url)]

\* what the server answers for a raw address: the file, 404, or a failure
Answers == {"ok", "not found", "failure"}

\* download_file: one request; the file is written on a 200, False comes
\* back on a 404, anything else is raised again
download_file(answer) ==
    IF answer = "ok" THEN Returns(TRUE)
    ELSE IF answer = "not found" THEN Returns(FALSE)
    ELSE Raises("RequestException")

FetchInit ==
    /\ remote \in [Urls -> [skill : Answers, metadata : {"ok", "not found"}]]
    /\ cache_files = {}
    /\ network_requests = 0
    /\ downloads = <<>>
    /\ pc = "fetch"
    /\ MatchIdle
    /\ SmoothIdle
    /\ AnalysisIdle
    /\ LibraryIdle
    /\ EntryIdle
    /\ FrequencyIdle

\* fetcher.download_skill(url) and fetcher.download_skill(url,
\* force_refresh=...): the method takes url alone, so a call that names
\* force_refresh is refused with TypeError before its body runs; the body
\* requests SKILL.md and then metadata.json, whatever the cache holds
DownloadSkill(url, force_refresh) ==
    /\ pc = "fetch"
    /\ Len(downloads) < MaxDownloads
    /\ LET raw == get_raw_urls(url)
           cache_path == raw.skill_name
           skill == download_file(remote[url].skill)
           metadata == download_file(remote[url].metadata)
           written ==
               {<<cache_path, "SKILL.md">> : x \in {skill} \cap {Returns(TRUE)}}
               \cup {<<cache_path, "metadata.json">> :
                        x \in {metadata} \cap {Returns(TRUE)}}
       IN  IF force_refresh # "omitted"
           THEN /\ downloads' =
                      Append(downloads,
                             [url |-> url, force_refresh |-> force_refresh,
                              outcome |-> Raises("TypeError"), requests |-> 0])
                /\ UNCHANGED <<cache_files, network_requests>>
           ELSE IF skill.outcome = "raises"
           THEN /\ downloads' =
                      Append(downloads,
                             [url |-> url, force_refresh |-> force_refresh,
                              outcome |-> skill, requests |-> 1])
                /\ network_requests' = network_requests + 1
                /\ UNCHANGED cache_files
           ELSE /\ downloads' =
                      Append(downloads,
                             [url |-> url, force_refresh |-> force_refresh,
                              outcome |-> Returns(cache_path), requests |-> 2])
                /\ network_requests' = network_requests + 2
                /\ cache_files' = cache_files \cup written
    /\ UNCHANGED <<remote, pc, matchVars, smoothVars, analysisVars,
                   libraryVars, entryVars, frequencyVars>>

FetchNext ==
    \E url \in Urls : \E force_refresh \in {"omitted", "false", "true"} :
        DownloadSkill(url, force_refresh)

SpecFetch == FetchInit /\ [][FetchNext]_vars

(***************************************************************************)
(* Properties of the fetcher                                               *)
(***************************************************************************)
\* C27: once download_skill(url) has succeeded, a later download_skill(url)
\* without force_refresh makes no network request and returns the same cache
\* path; with force_refresh=True it downloads again
C27_SecondDownloadUsesCache ==
    \A i \in 1..Len(downloads) : \A j \in 1..Len(downloads) :
        (/\ i < j
         /\ downloads[i].url = downloads[j].url
         /\ downloads[i].outcome.outcome = "returns")
        => IF downloads[j].force_refresh = "true"
           THEN /\ downloads[j].outcome = downloads[i].outcome
                /\ downloads[j].requests > 0
           ELSE /\ downloads[j].outcome = downloads[i].outcome
                /\ downloads[j].requests = 0

(***************************************************************************)
(* Properties of the section spans and of headings inside code fences      *)
(***************************************************************************)
\* C28: the spans of the sections are contiguous and consistent: start_line
\* is the index of the section's heading line and grows strictly along the
\* list, start_line <= end_line, each end_line is the next start_line minus
\* one, the last end_line is the index of the last line of the body, and the
\* content of a section is made of exactly end_line - start_line lines
C28_SectionSpansAreContiguous ==
    \A S \in parsed_sections :
        LET body == markdown_body
        IN  /\ \A k \in 1..Len(S) :
                  LET lines == S[k].end_line - S[k].start_line
                  IN  /\ S[k].start_line \in HeadingIndexes(body)
                      /\ S[k].start_line <= S[k].end_line
                      /\ S[k].content =
                            JoinLines([n \in 1..lines |->
                                          body[S[k].start_line + 1 + n]])
                      /\ lines >= 1 => Len(S[k].content) = lines
                      /\ lines = 0 => S[k].content = <<"">>
            /\ \A k \in 1..(Len(S) - 1) :
                  /\ S[k].start_line < S[k + 1].start_line
                  /\ S[k].end_line = S[k + 1].start_line - 1
            /\ Len(S) > 0 => S[Len(S)].end_line = Len(body) - 1

\* two sections, the first a heading alone, the second with lines below it
C28_Witness ==
    \E S \in parsed_sections :
        /\ Len(S) = 2
        /\ S[1].end_line = S[1].start_line
        /\ S[2].end_line >= S[2].start_line + 2

\* the line of index i (from 0) lies between an opening code fence and its
\* closing fence
InsideFences(body, i) ==
    /\ (i + 1) \notin FenceLines(body)
    /\ Cardinality({f \in FenceLines(body) : f < i + 1}) % 2 = 1
    /\ \E f \in FenceLines(body) : f > i + 1

\* C30: the sections do not depend on the code fences: there are as many
\* sections as lines that match the heading pattern, a heading-like line
\* inside a fenced region ends one section and begins the next, and the
\* fragments are what they are without regard to such a line: one per pair
\* of fences, holding every line between them
C30_HeadingsInsideFencesBeginSections ==
    LET body == markdown_body
    IN  /\ \A S \in parsed_sections :
              /\ Len(S) = Cardinality(HeadingIndexes(body))
              /\ \A h \in HeadingIndexes(body) :
                    InsideFences(body, h) =>
                       \E k \in 1..Len(S) :
                          /\ S[k].start_line = h
                          /\ k > 1 => S[k - 1].end_line = h - 1
        /\ \A B \in parsed_code_blocks :
              /\ Len(B) = Cardinality(FenceLines(body)) \div 2
              /\ \A k \in 1..Len(B) :
                    B[k].content =
                       SubSeq(body, NthFence(body, 2 * k - 1) + 1,
                              NthFence(body, 2 * k) - 1) \o <<"">>

\* a heading, then a fragment with a heading-like line in it: two sections
\* and one fragment that holds the line
C30_Witness ==
    /\ \E S \in parsed_sections :
          /\ Len(S) = 2
          /\ InsideFences(markdown_body, S[2].start_line)
    /\ \E B \in parsed_code_blocks :
          /\ Len(B) = 1
          /\ \E n \in 1..Len(B[1].content) : IsHeading(B[1].content[n])

(***************************************************************************)
(* Properties of a metadata record whose age cannot be computed            *)
(***************************************************************************)
\* metadata.json is read and holds an updatedAt that is not a number
AgeNotComputable ==
    /\ skill_md.exists
    /\ metadata_json.state = "valid"
    /\ metadata_json.data.exists
    /\ metadata_json.data.has_updatedAt
    /\ ~metadata_json.data.updatedAt_is_number

\* C29: a metadata record with an updatedAt from which no age can be
\* computed scores 0 on update frequency and does not fail the analysis:
\* analyze returns a scored record without an error key
C29_UncomputableAgeScoresZero ==
    (AgeNotComputable /\ pc = "returned") =>
        /\ raised = "none"
        /\ result # {}
        /\ \A record \in result :
              /\ "error" \notin DOMAIN record
              /\ Scored(record)
              /\ record.scores.maintenance.subs.update_frequency = 0

====
